---- MODULE Spec2Model ----
(***************************************************************************)
(* Model of the contract-ingestion pipeline of agentic-risk-automation:    *)
(* src/agents/ingestion/main.py (text segmenter, type coercion, schema     *)
(* validator, cross-chunk merge and the Lambda handler).                   *)
(*                                                                         *)
(* Python strings are modelled as sequences of one-character strings, and  *)
(* Python indices keep their 0-based values (text[k] is s[k + 1]).         *)
(***************************************************************************)
EXTENDS Integers, Sequences, FiniteSets, TLC

VARIABLES
    \* ---- _chunk_text (src/agents/ingestion/main.py:125-153) ----
    rawText,          \* the `text` argument as passed by the caller
    max_chars,        \* the `max_chars` argument
    text,             \* `text` after line 129 (whitespace-normalized)
    i,                \* loop index of the carving loop
    chunks,           \* `chunks`, the stripped slices appended so far
    cuts,             \* the cut points chosen so far (history of `cut`)
    filtered_chunks,  \* the returned list
    ckpc,             \* position in _chunk_text
    \* ---- _validate_schema_minimal (main.py:98-122) ----
    v_obj,            \* the `obj` argument
    v_verdict,        \* what the call did: returned, or the ValueError raised
    vpc,              \* position in _validate_schema_minimal
    \* ---- _merge_extractions (main.py:340-346) ----
    m_extractions,    \* the `extractions` argument
    m_merged,         \* `merged`
    m_idx,            \* number of records the outer loop has processed
    mpc,              \* position in _merge_extractions
    \* ---- handler (main.py:433-515) ----
    event,            \* the `event` argument
    hpc,              \* position in handler
    contract_id,
    bucket,
    key,
    elapsed,          \* time.time() - start in _wait_for_textract, in seconds
    blocks,           \* `blocks` of _get_textract_text
    pages,            \* number of result pages fetched so far
    full_text,
    h_chunks,         \* `chunks` of handler
    idx,              \* index of the next chunk of the extraction loop
    extractions,
    errors,
    responses,        \* history: what the model returned for each chunk so far
    merge_calls,      \* history: number of calls of _merge_extractions
    submissions,      \* history: number of calls of start_document_text_detection
    invocations,      \* history: the chunk index of every _invoke_bedrock call, in call order
    raised,           \* the exception that left handler, if any
    result,           \* the value handler returned, if any
    \* ---- _wait_for_textract (main.py:366-410, compliance/main-2.py:360-384) ----
    w_copy,           \* which copy of the function runs: "ingestion" or "compliance"
    timeout_seconds,  \* the `timeout_seconds` argument
    clock,            \* time.time() - start, in seconds
    last_resp,        \* `last_resp` / `resp`: the latest status response
    w_elapsed,        \* `elapsed` as last computed (line 400; main-2.py:369)
    w_statuses,       \* history: the JobStatus of every response so far
    w_outcome,        \* how the call ended
    wpc,              \* position in _wait_for_textract
    \* ---- _get_textract_text (main.py:413-429) ----
    g_blocks,         \* `blocks`
    next_token,       \* `next_token`
    g_requests,       \* history: the NextToken argument of every request (None if not passed)
    g_served,         \* history: the responses in the order they were returned
    g_outcome,        \* the returned text
    gpc,              \* position in _get_textract_text
    \* ---- handler of src/agents/risk_analysis/main.py:253-323 ----
    r_event,          \* the `event` argument
    run_bedrock,      \* RUN_BEDROCK of the environment, line 275
    threshold,        \* HIGH_RISK_THRESHOLD of the environment, in hundredths
    structured_contract,
    r_contract_id,    \* `contract_id`
    r_response,       \* history: what the model call gave
    r_raised,         \* the exception that left handler, if any
    r_result,         \* the value handler returned, if any
    rpc,              \* position in handler
    \* ---- _json_loads_safely (ingestion/main.py:70-95, risk_analysis/main.py:26-40) ----
    j_input,          \* the `text` argument as passed by the caller
    j_text,           \* `text` after line 78
    start,
    end,
    j_parsed,         \* history: the string handed to json.loads, if any
    j_outcome,        \* how the call ended
    jpc,              \* position in _json_loads_safely
    \* ---- response normalization of _invoke_bedrock (ingestion/main.py:243-263) ----
    MODEL_ID,         \* the model family MODEL_ID names: "anthropic", "nova" or "other"
    payload,
    model_text,
    npc,              \* position in the normalization
    \* ---- _coerce_value_to_string_or_none (ingestion/main.py:309-337) ----
    c_value,          \* the `value` argument of the first call
    c_once,           \* what the first call returned
    c_twice,          \* what the call on that result returned
    cpc,              \* how many calls have been made
    \* ---- the OCR phase of handler (ingestion/main.py:467-478) on its own ----
    opc,              \* position in the phase
    o_jobs,           \* history: number of calls of start_document_text_detection
    \* ---- handler of src/agents/approval/callback_handler.py:23-176 ----
    concurrency,      \* how many invocations the platform runs at a time
    a_store,          \* the item of the approval table under the approval_id
    a_sent,           \* history: the decisions send_task_success accepted, in order
    a_started,        \* history: number of invocations so far
    cb_pc,            \* per invocation slot: position in handler
    cb_event,         \* per slot: the query parameters of the event
    cb_item,          \* per slot: `approval_item`
    cb_sent,          \* per slot, history: this invocation's send_task_success returned
    cb_wrote,         \* per slot, history: this invocation's update_item returned
    cb_response       \* per slot: the statusCode returned, 0 while there is none

chunkVars == <<rawText, max_chars, text, i, chunks, cuts, filtered_chunks, ckpc>>
validateVars == <<v_obj, v_verdict, vpc>>
mergeVars == <<m_extractions, m_merged, m_idx, mpc>>

handlerVars ==
    << event, hpc, contract_id, bucket, key, elapsed, blocks, pages, full_text,
       h_chunks, idx, extractions, errors, responses, merge_calls, submissions, invocations,
       raised, result >>

waitVars == <<w_copy, timeout_seconds, clock, last_resp, w_elapsed, w_statuses, w_outcome, wpc>>
getTextVars == <<g_blocks, next_token, g_requests, g_served, g_outcome, gpc>>

\* the functions checked on their own besides the segmenter, validator and merge
riskVars ==
    << r_event, run_bedrock, threshold, structured_contract, r_contract_id, r_response,
       r_raised, r_result, rpc >>

jsonVars == <<j_input, j_text, start, end, j_parsed, j_outcome, jpc>>
normVars == <<MODEL_ID, payload, model_text, npc>>

coerceVars == <<c_value, c_once, c_twice, cpc>>

ocrVars == <<opc, o_jobs>>

approvalVars ==
    << concurrency, a_store, a_sent, a_started, cb_pc, cb_event, cb_item, cb_sent,
       cb_wrote, cb_response >>

\* the groups of the functions modelled last
lateVars == <<coerceVars, ocrVars, approvalVars>>

helperVars == <<waitVars, getTextVars, riskVars, jsonVars, normVars, lateVars>>

vars == <<chunkVars, validateVars, mergeVars, handlerVars, helperVars>>

(***************************************************************************)
(* Bounds of the model.                                                    *)
(***************************************************************************)
MaxTextLen == 7
MaxChars == 6
MaxRecords == 3
MaxPages == 3

(***************************************************************************)
(* Python string primitives.                                               *)
(***************************************************************************)
Whitespace == {" ", "\n"}

Alphabet == {"a", ".", " ", "\n"}

Min(a, b) == IF a <= b THEN a ELSE b

\* s[a:b] for 0 <= a <= b <= len(s)
Slice(s, a, b) == SubSeq(s, a + 1, b)

\* str.split() with no argument: the maximal runs of non-whitespace, in order
RECURSIVE SplitFrom(_, _, _, _)
SplitFrom(s, k, cur, acc) ==
    IF k > Len(s)
    THEN IF cur = <<>> THEN acc ELSE Append(acc, cur)
    ELSE IF s[k] \in Whitespace
         THEN SplitFrom(s, k + 1, <<>>, IF cur = <<>> THEN acc ELSE Append(acc, cur))
         ELSE SplitFrom(s, k + 1, Append(cur, s[k]), acc)

PySplit(s) == SplitFrom(s, 1, <<>>, <<>>)

\* sep.join(parts)
RECURSIVE PyJoin(_, _)
PyJoin(sep, parts) ==
    IF parts = <<>> THEN <<>>
    ELSE IF Len(parts) = 1 THEN parts[1]
    ELSE parts[1] \o sep \o PyJoin(sep, Tail(parts))

\* str.strip(): leading and trailing whitespace removed
RECURSIVE LStrip(_)
LStrip(s) == IF s # <<>> /\ s[1] \in Whitespace THEN LStrip(Tail(s)) ELSE s

RECURSIVE RStrip(_)
RStrip(s) ==
    IF s # <<>> /\ s[Len(s)] \in Whitespace THEN RStrip(SubSeq(s, 1, Len(s) - 1)) ELSE s

PyStrip(s) == RStrip(LStrip(s))

\* s.rfind(sub, a, b): the highest k with a <= k, k + len(sub) <= b and
\* s[k:k+len(sub)] = sub, or -1
RFind(s, sub, a, b) ==
    LET hits == {k \in a..(b - Len(sub)) : Slice(s, k, k + Len(sub)) = sub}
    IN  IF hits = {} THEN -1 ELSE CHOOSE k \in hits : \A h \in hits : h <= k

(***************************************************************************)
(* Python values as they come out of json.loads: None, str, int, bool,     *)
(* dict (a function from keys to values) and list.                         *)
(***************************************************************************)
NONE == [t |-> "null"]
PyStr(s) == [t |-> "str", s |-> s]
PyNum(n) == [t |-> "num", n |-> n]
PyBool(b) == [t |-> "bool", b |-> b]
PyDict(d) == [t |-> "dict", d |-> d]
PyList(items) == [t |-> "list", items |-> items]

\* obj.get(k) for a dict obj
Get(obj, k) == IF k \in DOMAIN obj.d THEN obj.d[k] ELSE NONE

\* FIELDS, main.py:58-66
FIELDS ==
    << "governing_law", "termination_clause", "liability_clause", "indemnity_clause",
       "data_protection", "payment_terms", "renewal_terms" >>

FieldSet == {FIELDS[n] : n \in 1..Len(FIELDS)}

(***************************************************************************)
(* _validate_schema_minimal: "ok" when it returns, else the ValueError it  *)
(* raises (err) with the keys the message names (keys).                    *)
(***************************************************************************)
Accept == [err |-> "ok", keys |-> {}]
Reject(e, ks) == [err |-> e, keys |-> ks]

\* a validator that forgets the closed-key-set check of lines 106-109
ValidateSchemaOpen(obj) ==
    IF obj.t # "dict" THEN Reject("Extraction output is not an object", {})
    ELSE LET missing == {k \in FieldSet : k \notin DOMAIN obj.d}
             badType == {k \in FieldSet : Get(obj, k).t \notin {"null", "str"}}
         IN  IF missing # {} THEN Reject("Missing required fields", missing)
             ELSE IF badType # {}
                  THEN Reject("must be string or null",
                              {FIELDS[CHOOSE n \in 1..Len(FIELDS) :
                                   /\ FIELDS[n] \in badType
                                   /\ \A q \in 1..(n - 1) : FIELDS[q] \notin badType]})
                  ELSE Accept

\* a validator that looks for missing fields before it looks for foreign keys
ValidateSchemaMissingFirst(obj) ==
    IF obj.t # "dict" THEN Reject("Extraction output is not an object", {})
    ELSE LET extra == DOMAIN obj.d \ FieldSet
             missing == {k \in FieldSet : k \notin DOMAIN obj.d}
             badType == {k \in FieldSet : Get(obj, k).t \notin {"null", "str"}}
         IN  IF missing # {} THEN Reject("Missing required fields", missing)
             ELSE IF extra # {} THEN Reject("Unexpected fields in output", extra)
             ELSE IF badType # {}
                  THEN Reject("must be string or null",
                              {FIELDS[CHOOSE n \in 1..Len(FIELDS) :
                                   /\ FIELDS[n] \in badType
                                   /\ \A q \in 1..(n - 1) : FIELDS[q] \notin badType]})
                  ELSE Accept

_validate_schema_minimal(obj) ==
    IF obj.t # "dict" THEN Reject("Extraction output is not an object", {})
    ELSE LET extra == DOMAIN obj.d \ FieldSet
             missing == {k \in FieldSet : k \notin DOMAIN obj.d}
             badType == {k \in FieldSet : Get(obj, k).t \notin {"null", "str"}}
         IN  IF extra # {} THEN Reject("Unexpected fields in output", extra)
             ELSE IF missing # {} THEN Reject("Missing required fields", missing)
             ELSE IF badType # {}
                  \* the loop of lines 116-120 raises at the first such field
                  THEN Reject("must be string or null",
                              {FIELDS[CHOOSE n \in 1..Len(FIELDS) :
                                   /\ FIELDS[n] \in badType
                                   /\ \A q \in 1..(n - 1) : FIELDS[q] \notin badType]})
                  ELSE Accept

\* the validator has not been called
ValidateIdle ==
    /\ v_obj = NONE
    /\ v_verdict = Reject("not called", {})
    /\ vpc = "idle"

(***************************************************************************)
(* _coerce_value_to_string_or_none and _coerce_extraction_types            *)
(***************************************************************************)
Digits == <<"0", "1", "2", "3", "4", "5", "6", "7", "8", "9">>

\* str(n) for an int n
RECURSIVE NatStr(_)
NatStr(n) == IF n < 10 THEN <<Digits[n + 1]>> ELSE NatStr(n \div 10) \o <<Digits[(n % 10) + 1]>>

IntStr(n) == IF n < 0 THEN <<"-">> \o NatStr(-n) ELSE NatStr(n)

\* the characters of a JSON string body, ensure_ascii=False
RECURSIVE JsonEscape(_)
JsonEscape(s) ==
    IF s = <<>> THEN <<>>
    ELSE (CASE s[1] = "\n" -> <<"\\", "n">>
            [] s[1] = "\"" -> <<"\\", "\"">>
            [] s[1] = "\\" -> <<"\\", "\\">>
            [] OTHER -> <<s[1]>>) \o JsonEscape(Tail(s))

\* json.dumps(value, ensure_ascii=False, separators=(",", ":")); the keys of a
\* dict are one-character strings and are written in one fixed order
RECURSIVE JsonDumps(_)
RECURSIVE JsonMembers(_, _)
RECURSIVE JsonItems(_)
JsonDumps(v) ==
    CASE v.t = "null" -> <<"n", "u", "l", "l">>
      [] v.t = "str" -> <<"\"">> \o JsonEscape(v.s) \o <<"\"">>
      [] v.t = "num" -> IntStr(v.n)
      [] v.t = "bool" -> IF v.b THEN <<"t", "r", "u", "e">> ELSE <<"f", "a", "l", "s", "e">>
      [] v.t = "dict" -> <<"{">> \o JsonMembers(v.d, DOMAIN v.d) \o <<"}">>
      [] v.t = "list" -> <<"[">> \o JsonItems(v.items) \o <<"]">>

JsonMembers(d, ks) ==
    IF ks = {} THEN <<>>
    ELSE LET k == CHOOSE x \in ks : TRUE
             rest == ks \ {k}
         IN  <<"\"", k, "\"", ":">> \o JsonDumps(d[k])
             \o (IF rest = {} THEN <<>> ELSE <<",">> \o JsonMembers(d, rest))

JsonItems(items) ==
    IF items = <<>> THEN <<>>
    ELSE JsonDumps(items[1])
         \o (IF Len(items) = 1 THEN <<>> ELSE <<",">> \o JsonItems(Tail(items)))

\* str(value) for an int or a bool
PyStrOf(v) ==
    CASE v.t = "num" -> IntStr(v.n)
      [] v.t = "bool" -> IF v.b THEN <<"T", "r", "u", "e">> ELSE <<"F", "a", "l", "s", "e">>

\* lines 321-332: the parts a list contributes
RECURSIVE ListParts(_)
ListParts(items) ==
    IF items = <<>> THEN <<>>
    ELSE LET item == items[1]
             part == CASE item.t = "null" -> <<>>
                       [] item.t = "str" ->
                            IF PyStrip(item.s) # <<>> THEN <<PyStrip(item.s)>> ELSE <<>>
                       [] item.t = "dict" -> <<JsonDumps(item)>>
                       [] OTHER -> <<PyStrOf(item)>>
         IN  part \o ListParts(Tail(items))

\* the string as it is, the empty one included: `v` in place of `v if v else None`
StrKeepEmpty(s) == PyStr(s)

\* `v if v else None`
StrOrNone(s) == IF s # <<>> THEN PyStr(s) ELSE NONE

\* lines 309-337
_coerce_value_to_string_or_none(value) ==
    CASE value.t = "null" -> NONE
      [] value.t = "str" -> StrOrNone(PyStrip(value.s))
      [] value.t = "dict" -> PyStr(JsonDumps(value))
      [] value.t = "list" -> StrOrNone(PyStrip(PyJoin(<<"\n">>, ListParts(value.items))))
      [] OTHER -> StrOrNone(PyStrip(PyStrOf(value)))

\* lines 276-288: a new dict with exactly the keys of FIELDS
_coerce_extraction_types(obj) == PyDict([k \in FieldSet |-> _coerce_value_to_string_or_none(Get(obj, k))])

(***************************************************************************)
(* _merge_extractions                                                      *)
(***************************************************************************)
\* line 341
AllNone == PyDict([k \in FieldSet |-> NONE])

\* a merge in which every record overwrites: the `merged[k] is None` test of
\* line 344 is missing
MergeOneLastWins(merged, ext) ==
    PyDict([k \in FieldSet |->
              IF Get(ext, k) # NONE THEN Get(ext, k) ELSE merged.d[k]])

\* a merge that keeps every value: a field two records fill becomes a list
MergeOneCollecting(merged, ext) ==
    PyDict([k \in FieldSet |->
              IF Get(ext, k) = NONE THEN merged.d[k]
              ELSE IF merged.d[k] = NONE THEN Get(ext, k)
              ELSE PyList(<<merged.d[k], Get(ext, k)>>)])

\* lines 343-345: the inner loop over FIELDS for one record
MergeOne(merged, ext) ==
    PyDict([k \in FieldSet |->
              IF merged.d[k] = NONE /\ Get(ext, k) # NONE
              THEN Get(ext, k)
              ELSE merged.d[k]])

\* lines 341-346
RECURSIVE MergeFrom(_, _)
MergeFrom(merged, exts) ==
    IF exts = <<>> THEN merged
    ELSE MergeFrom(MergeOne(merged, exts[1]), Tail(exts))

_merge_extractions(exts) == MergeFrom(AllNone, exts)

\* _merge_extractions is not running
MergeIdle ==
    /\ m_extractions = <<>>
    /\ m_merged = NONE
    /\ m_idx = 0
    /\ mpc = "idle"

(***************************************************************************)
(* How handler ends: the exception it raises or the value it returns       *)
(***************************************************************************)
NoException == [etype |-> "none", msg |-> "", at |-> "none"]
Exception(etype, msg, at) == [etype |-> etype, msg |-> msg, at |-> at]
NoResult == [pending |-> TRUE]

\* the handler has not been invoked
HandlerIdle ==
    /\ event = NONE
    /\ hpc = "idle"
    /\ contract_id = NONE
    /\ bucket = NONE
    /\ key = NONE
    /\ elapsed = 0
    /\ blocks = <<>>
    /\ pages = 0
    /\ full_text = <<>>
    /\ h_chunks = <<>>
    /\ idx = 0
    /\ extractions = <<>>
    /\ errors = <<>>
    /\ responses = <<>>
    /\ merge_calls = 0
    /\ submissions = 0
    /\ invocations = <<>>
    /\ raised = NoException
    /\ result = NoResult

\* how a helper call ends: it returns `value` or raises `etype` carrying `info`
Pending == [kind |-> "pending", etype |-> "none", value |-> [t |-> "null"], info |-> [t |-> "null"]]
Returns(v) == [kind |-> "returned", etype |-> "none", value |-> v, info |-> [t |-> "null"]]
Raises(etype, info) == [kind |-> "raised", etype |-> etype, value |-> [t |-> "null"], info |-> info]

\* _wait_for_textract has not been called
WaitIdle ==
    /\ w_copy = "none"
    /\ timeout_seconds = NONE
    /\ clock = 0
    /\ last_resp = NONE
    /\ w_elapsed = 0
    /\ w_statuses = <<>>
    /\ w_outcome = Pending
    /\ wpc = "idle"

\* _get_textract_text has not been called
GetTextIdle ==
    /\ g_blocks = <<>>
    /\ next_token = NONE
    /\ g_requests = <<>>
    /\ g_served = <<>>
    /\ g_outcome = Pending
    /\ gpc = "idle"

\* the risk handler has not been invoked
RiskIdle ==
    /\ r_event = NONE
    /\ run_bedrock = TRUE
    /\ threshold = 0
    /\ structured_contract = NONE
    /\ r_contract_id = NONE
    /\ r_response = NONE
    /\ r_raised = NoException
    /\ r_result = NoResult
    /\ rpc = "idle"

\* _json_loads_safely has not been called
JsonIdle ==
    /\ j_input = <<>>
    /\ j_text = <<>>
    /\ start = -1
    /\ end = -1
    /\ j_parsed = NONE
    /\ j_outcome = Pending
    /\ jpc = "idle"

\* no response has been normalized
NormIdle ==
    /\ MODEL_ID = "none"
    /\ payload = NONE
    /\ model_text = NONE
    /\ npc = "idle"

\* _wait_for_textract, _get_textract_text and the risk handler are idle
OcrAndRiskIdle ==
    /\ WaitIdle
    /\ GetTextIdle
    /\ RiskIdle

\* _coerce_value_to_string_or_none is not being tried
CoerceIdle ==
    /\ c_value = NONE
    /\ c_once = NONE
    /\ c_twice = NONE
    /\ cpc = "idle"

\* the OCR phase on its own is not running
OcrIdle ==
    /\ opc = "idle"
    /\ o_jobs = 0

\* the slots in which invocations of the callback handler run
Slots == {1, 2}

\* no approval is stored and no callback has arrived
CallbackIdle ==
    /\ concurrency = 0
    /\ a_store = NONE
    /\ a_sent = <<>>
    /\ a_started = 0
    /\ cb_pc = [p \in Slots |-> "idle"]
    /\ cb_event = [p \in Slots |-> NONE]
    /\ cb_item = [p \in Slots |-> NONE]
    /\ cb_sent = [p \in Slots |-> FALSE]
    /\ cb_wrote = [p \in Slots |-> FALSE]
    /\ cb_response = [p \in Slots |-> 0]

LateIdle ==
    /\ CoerceIdle
    /\ OcrIdle
    /\ CallbackIdle

HelpersIdle ==
    /\ OcrAndRiskIdle
    /\ JsonIdle
    /\ NormIdle
    /\ LateIdle

(***************************************************************************)
(* _chunk_text                                                             *)
(***************************************************************************)
\* a normalizer that trims the ends but does not collapse inner whitespace
NormalizeStripOnly(s) == PyStrip(s)

\* line 129: " ".join(text.split())
Normalize(s) == PyJoin(<<" ">>, PySplit(s))

\* a threshold of 40%: int(max_chars * 0.4)
FortyPercent(m) == (m * 4) \div 10

\* int(max_chars * 0.6), line 143
SixtyPercent(m) == (m * 6) \div 10

\* a window one character too wide: j = min(i + max_chars + 1, len(text))
CutPointWideWindow(s, i0, m) ==
    LET j == Min(i0 + m + 1, Len(s))
        sentence == RFind(s, <<".", " ">>, i0, j)
        cut1 == IF sentence = -1 \/ sentence <= i0 + SixtyPercent(m)
                THEN RFind(s, <<" ">>, i0, j)
                ELSE sentence
    IN  IF cut1 = -1 \/ cut1 <= i0 THEN j ELSE cut1

\* a cut that may stay where the window starts: `cut < i` in place of the
\* `cut <= i` of line 145
CutPointStalling(s, i0, m) ==
    LET j == Min(i0 + m, Len(s))
        sentence == RFind(s, <<".", " ">>, i0, j)
        cut1 == IF sentence = -1 \/ sentence <= i0 + SixtyPercent(m)
                THEN RFind(s, <<" ">>, i0, j)
                ELSE sentence
    IN  IF cut1 = -1 \/ cut1 < i0 THEN j ELSE cut1

\* lines 140-146: the cut point of the window that starts at i0
CutPoint(s, i0, m) ==
    LET j == Min(i0 + m, Len(s))
        sentence == RFind(s, <<".", " ">>, i0, j)
        cut1 == IF sentence = -1 \/ sentence <= i0 + SixtyPercent(m)
                THEN RFind(s, <<" ">>, i0, j)
                ELSE sentence
    IN  IF cut1 = -1 \/ cut1 <= i0 THEN j ELSE cut1

\* line 151: [c for c in chunks if c]
DropEmpty(cs) == SelectSeq(cs, LAMBDA c : c # <<>>)

RECURSIVE SeqsUpTo(_, _)
SeqsUpTo(S, n) ==
    IF n = 0 THEN {<<>>}
    ELSE LET shorter == SeqsUpTo(S, n - 1)
         IN  shorter \cup {Append(q, c) : q \in {r \in shorter : Len(r) = n - 1}, c \in S}

\* _chunk_text is not running
ChunkIdle ==
    /\ rawText = <<>>
    /\ max_chars = 1
    /\ text = <<>>
    /\ i = 0
    /\ chunks = <<>>
    /\ cuts = <<>>
    /\ filtered_chunks = <<>>
    /\ ckpc = "idle"

ChunkInit ==
    /\ rawText \in SeqsUpTo(Alphabet, MaxTextLen)
    /\ max_chars \in 1..MaxChars
    /\ text = <<>>
    /\ i = 0
    /\ chunks = <<>>
    /\ cuts = <<>>
    /\ filtered_chunks = <<>>
    /\ ckpc = "entry"
    /\ ValidateIdle
    /\ MergeIdle
    /\ HandlerIdle
    /\ HelpersIdle

\* lines 129-138
ChunkStart ==
    /\ ckpc = "entry"
    /\ text' = Normalize(rawText)
    /\ IF Len(text') <= max_chars
       THEN /\ filtered_chunks' = <<text'>>
            /\ ckpc' = "returned"
       ELSE /\ filtered_chunks' = <<>>
            /\ ckpc' = "loop"
    /\ UNCHANGED <<rawText, max_chars, i, chunks, cuts>>
    /\ UNCHANGED <<validateVars, mergeVars, handlerVars, helperVars>>

\* a carving loop that steps over the separator: i = cut + 1
ChunkLoopSkipSeparator ==
    /\ ckpc = "loop"
    /\ i < Len(text)
    /\ LET cut == CutPoint(text, i, max_chars)
       IN  /\ chunks' = Append(chunks, PyStrip(Slice(text, i, cut)))
           /\ cuts' = Append(cuts, cut)
           /\ i' = cut + 1
    /\ UNCHANGED <<rawText, max_chars, text, filtered_chunks, ckpc>>
    /\ UNCHANGED <<validateVars, mergeVars, handlerVars, helperVars>>

\* lines 139-149: one iteration of the carving loop
ChunkLoop ==
    /\ ckpc = "loop"
    /\ i < Len(text)
    /\ LET cut == CutPoint(text, i, max_chars)
       IN  /\ chunks' = Append(chunks, PyStrip(Slice(text, i, cut)))
           /\ cuts' = Append(cuts, cut)
           /\ i' = cut
    /\ UNCHANGED <<rawText, max_chars, text, filtered_chunks, ckpc>>
    /\ UNCHANGED <<validateVars, mergeVars, handlerVars, helperVars>>

\* lines 151-153
ChunkReturn ==
    /\ ckpc = "loop"
    /\ ~(i < Len(text))
    /\ filtered_chunks' = DropEmpty(chunks)
    /\ ckpc' = "returned"
    /\ UNCHANGED <<rawText, max_chars, text, i, chunks, cuts>>
    /\ UNCHANGED <<validateVars, mergeVars, handlerVars, helperVars>>

ChunkNext == ChunkStart \/ ChunkLoop \/ ChunkReturn

SpecChunk == ChunkInit /\ [][ChunkNext]_vars

\* the calls on texts of letters, full stops and blanks (line 129 turns every
\* other whitespace character into a blank before the loop sees it)
ChunkInitBlanks ==
    /\ ChunkInit
    /\ \A n \in 1..Len(rawText) : rawText[n] # "\n"

\* the call runs to its end: nothing but the loop itself can hold it up
SpecChunkFair == ChunkInitBlanks /\ [][ChunkNext]_vars /\ WF_vars(ChunkNext)

(***************************************************************************)
(* _validate_schema_minimal applied to arbitrary parsed values             *)
(***************************************************************************)
AllKeys == FieldSet \cup {"extra_field"}

PlainValues == {NONE, PyStr(<<"N", "Y">>)}

OddValues ==
    { PyNum(30), PyBool(TRUE), PyList(<<PyStr(<<"x">>)>>),
      PyDict([k \in {"days"} |-> PyNum(30)]) }

\* dicts over every subset of the 7 fields and one foreign key, whose values
\* are all None or all the same string, but for at most one odd value
MappingInputs ==
    UNION { { PyDict([k \in K |-> base]) : base \in PlainValues }
            \cup { PyDict([k \in K |-> IF k = ko THEN odd ELSE base]) :
                       base \in PlainValues, ko \in K, odd \in OddValues }
            : K \in SUBSET AllKeys }

NonMappingInputs == {NONE, PyStr(<<"{", "}">>), PyNum(1), PyList(<<>>)}

ValidateInit ==
    /\ v_obj \in MappingInputs \cup NonMappingInputs
    /\ v_verdict = Reject("not called", {})
    /\ vpc = "entry"
    /\ ChunkIdle
    /\ MergeIdle
    /\ HandlerIdle
    /\ HelpersIdle

\* lines 98-122
Validate ==
    /\ vpc = "entry"
    /\ v_verdict' = _validate_schema_minimal(v_obj)
    /\ vpc' = "done"
    /\ UNCHANGED <<v_obj, chunkVars, mergeVars, handlerVars, helperVars>>

ValidateNext == Validate

SpecValidate == ValidateInit /\ [][ValidateNext]_vars

(***************************************************************************)
(* _merge_extractions applied to lists of extraction records               *)
(***************************************************************************)
\* an extraction record whose fields in S hold the string v, the others None
RecordOf(S, v) == PyDict([k \in FieldSet |-> IF k \in S THEN PyStr(v) ELSE NONE])

\* records with no field, one field or every field filled, in two values
ExtractionRecords ==
    { RecordOf(S, v) : S \in {{}} \cup {{k} : k \in FieldSet} \cup {FieldSet},
                       v \in {<<"N", "Y">>, <<"C", "A">>} }

MergeInit ==
    /\ m_extractions \in SeqsUpTo(ExtractionRecords, MaxRecords)
    /\ m_merged = NONE
    /\ m_idx = 0
    /\ mpc = "entry"
    /\ ChunkIdle
    /\ ValidateIdle
    /\ HandlerIdle
    /\ HelpersIdle

\* line 341
MergeEntry ==
    /\ mpc = "entry"
    /\ m_merged' = AllNone
    /\ mpc' = "loop"
    /\ UNCHANGED <<m_extractions, m_idx, chunkVars, validateVars, handlerVars, helperVars>>

\* lines 342-345: one iteration of the outer loop
MergeStep ==
    /\ mpc = "loop"
    /\ m_idx < Len(m_extractions)
    /\ m_merged' = MergeOne(m_merged, m_extractions[m_idx + 1])
    /\ m_idx' = m_idx + 1
    /\ UNCHANGED <<m_extractions, mpc, chunkVars, validateVars, handlerVars, helperVars>>

\* line 346
MergeReturn ==
    /\ mpc = "loop"
    /\ m_idx = Len(m_extractions)
    /\ mpc' = "returned"
    /\ UNCHANGED <<m_extractions, m_merged, m_idx, chunkVars, validateVars, handlerVars, helperVars>>

MergeNext == MergeEntry \/ MergeStep \/ MergeReturn

SpecMerge == MergeInit /\ [][MergeNext]_vars

(***************************************************************************)
(* handler of src/agents/ingestion/main.py                                 *)
(***************************************************************************)
\* configuration read from the environment at import (lines 22 and 26), with
\* values scaled to the texts and clock of the model
MAX_CHARS_PER_CHUNK == 4
TEXTRACT_WAIT_TIMEOUT == 4
\* time.sleep(2), line 410
PollSleep == 2

\* ---- events ----
\* The event is described by what the conditions of lines 437-465 read:
\*   s3:      "absent" | "non_dict" | "flat" ({"bucket": str, "key": str})
\*            | "bucket_only" ({"bucket": str})
\*            | "nested" ({"bucket": {"name": str}, "object": {"key": str}})
\*            | "nested_no_key" ({"bucket": {"name": str}})
\*   records: "absent" | "empty" ([]) | "notification" (a well-formed S3
\*            notification) | "malformed" ([{"s3": {}}]) | "no_s3" ([{}])
BucketName == PyStr(<<"b">>)
ObjectKey == PyStr(<<"k", "+", "1">>)

S3Shapes == {"absent", "non_dict", "flat", "bucket_only", "nested", "nested_no_key"}
RecordsShapes == {"absent", "empty", "notification", "malformed", "no_s3"}

DictEvents ==
    [ is_dict : {TRUE}, s3 : S3Shapes, records : RecordsShapes,
      contract_id : {NONE, PyStr(<<"c", "1">>)} ]

NonDictEvent == [is_dict |-> FALSE, s3 |-> "absent", records |-> "absent", contract_id |-> NONE]

Events == DictEvents \cup {NonDictEvent}

\* urllib.parse.unquote_plus on a key without percent escapes: "+" becomes " "
UnquotePlus(k) == PyStr([n \in 1..Len(k.s) |-> IF k.s[n] = "+" THEN " " ELSE k.s[n]])

\* str(uuid.uuid4())
FreshUuid == PyStr(<<"u", "u", "i", "d">>)

\* x or y, for a str-or-None x
PyOr(x, y) == IF x = NONE \/ x = PyStr(<<>>) THEN y ELSE x

\* ---- the OCR service ----
JobStatuses == {"IN_PROGRESS", "SUCCEEDED", "PARTIAL_SUCCESS", "FAILED", "UNKNOWN"}

Block(type, txt) == [BlockType |-> type, Text |-> txt]

\* result pages the service may return; Text = NONE is a block without "Text"
ResultPages ==
    { <<>>,
      <<Block("PAGE", NONE), Block("LINE", PyStr(<<"a", "b">>)), Block("WORD", PyStr(<<"a", "b">>))>>,
      <<Block("LINE", PyStr(<<"c", ".">>))>>,
      <<Block("LINE", NONE), Block("LINE", PyStr(<<" ">>))>> }

\* a selection that takes the text of every block, whatever its type
RECURSIVE LinesOfAnyType(_)
LinesOfAnyType(bs) ==
    IF bs = <<>> THEN <<>>
    ELSE (IF bs[1].Text # NONE THEN <<bs[1].Text.s>> ELSE <<>>) \o LinesOfAnyType(Tail(bs))

\* line 426
RECURSIVE LinesOf(_)
LinesOf(bs) ==
    IF bs = <<>> THEN <<>>
    ELSE (IF bs[1].BlockType = "LINE" /\ bs[1].Text # NONE THEN <<bs[1].Text.s>> ELSE <<>>)
         \o LinesOf(Tail(bs))

\* lines 426-427
TextOfBlocks(bs) == PyStrip(PyJoin(<<"\n">>, LinesOf(bs)))

\* ---- the model ----
\* parsed objects the model's text may hold
ModelObjects ==
    { \* the 7 fields, one of them a string to trim
      PyDict([k \in FieldSet |-> IF k = "governing_law" THEN PyStr(<<" ", "N", "Y">>) ELSE NONE]),
      \* the 7 fields, two of them filled
      PyDict([k \in FieldSet |-> IF k \in {"governing_law", "payment_terms"}
                                 THEN PyStr(<<"C", "A">>) ELSE NONE]),
      \* the 7 fields and a foreign key
      PyDict([k \in AllKeys |-> IF k \in {"payment_terms", "extra_field"}
                                THEN PyStr(<<"x">>) ELSE NONE]),
      \* fields missing, values that are no strings
      PyDict([k \in {"payment_terms", "renewal_terms", "liability_clause"} |->
                 CASE k = "payment_terms" -> PyNum(30)
                   [] k = "renewal_terms" -> PyList(<<PyStr(<<"y">>), NONE, PyBool(TRUE)>>)
                   [] OTHER -> PyDict([c \in {"d"} |-> PyNum(1)])]) }

\* what one call of the model gives: bedrock.invoke_model raises, the text
\* holds no braces, the braces hold no valid JSON, or the text holds an object
Response(kind, obj) == [kind |-> kind, obj |-> obj]

ModelResponses ==
    { Response("invoke_error", NONE), Response("no_json", NONE), Response("invalid_json", NONE) }
    \cup { Response("object", o) : o \in ModelObjects }

Returned(v) == [ok |-> TRUE, value |-> v, etype |-> "none", msg |-> ""]
Raised(etype, msg) == [ok |-> FALSE, value |-> NONE, etype |-> etype, msg |-> msg]

\* _invoke_bedrock that returns the parsed object as it is (lines 268-271 missing)
InvokeBedrockUnchecked(resp) ==
    CASE resp.kind = "invoke_error" -> Raised("ClientError", "invoke_model failed")
      [] resp.kind = "no_json" -> Raised("ValueError", "No JSON object found in model output")
      [] resp.kind = "invalid_json" -> Raised("JSONDecodeError", "Expecting value")
      [] OTHER -> Returned(resp.obj)

\* lines 232-273: the value _invoke_bedrock returns or the exception it raises
_invoke_bedrock(resp) ==
    CASE resp.kind = "invoke_error" -> Raised("ClientError", "invoke_model failed")
      [] resp.kind = "no_json" -> Raised("ValueError", "No JSON object found in model output")
      [] resp.kind = "invalid_json" -> Raised("JSONDecodeError", "Expecting value")
      [] OTHER ->
           LET extracted == _coerce_extraction_types(resp.obj)
               verdict == _validate_schema_minimal(extracted)
           IN  IF verdict = Accept THEN Returned(extracted)
               ELSE Raised("ValueError", verdict.err)

\* ---- _chunk_text as one call ----
RECURSIVE Carve(_, _, _)
Carve(s, i0, m) ==
    IF i0 < Len(s)
    THEN LET cut == CutPoint(s, i0, m)
         IN  <<PyStrip(Slice(s, i0, cut))>> \o Carve(s, cut, m)
    ELSE <<>>

_chunk_text(raw, m) ==
    LET t == Normalize(raw)
    IN  IF Len(t) <= m THEN <<t>> ELSE DropEmpty(Carve(t, 0, m))

\* ---- results ----
ErrorResult(reason, cid) == [status |-> "error", reason |-> reason, contract_id |-> cid]

HandlerInit ==
    /\ event \in Events
    /\ hpc = "entry"
    /\ contract_id = NONE
    /\ bucket = NONE
    /\ key = NONE
    /\ elapsed = 0
    /\ blocks = <<>>
    /\ pages = 0
    /\ full_text = <<>>
    /\ h_chunks = <<>>
    /\ idx = 0
    /\ extractions = <<>>
    /\ errors = <<>>
    /\ responses = <<>>
    /\ merge_calls = 0
    /\ submissions = 0
    /\ invocations = <<>>
    /\ raised = NoException
    /\ result = NoResult
    /\ ChunkIdle
    /\ ValidateIdle
    /\ MergeIdle
    /\ HelpersIdle

otherVars == <<chunkVars, validateVars, mergeVars, helperVars>>

\* handler ends by raising e
HandlerRaise(e) ==
    /\ raised' = e
    /\ hpc' = "done"
    /\ UNCHANGED result

\* handler ends by returning r
HandlerReturn(r) ==
    /\ result' = r
    /\ hpc' = "done"
    /\ UNCHANGED raised

\* the event once its locator is parsed: handler reads it again only for
\* vendor_metadata, which goes into the prompt text
ParsedEvent == [is_dict |-> TRUE, s3 |-> "parsed", records |-> "parsed", contract_id |-> NONE]

\* lines 434-465: the event is checked and the document locator parsed
ParseEvent ==
    /\ hpc = "entry"
    /\ IF ~event.is_dict
       THEN /\ HandlerRaise(Exception("ValueError", "Event must be a dict", "parse"))
            /\ UNCHANGED <<event, contract_id, bucket, key>>
       ELSE /\ contract_id' = PyOr(event.contract_id, FreshUuid)
            /\ CASE event.s3 = "flat" ->
                      /\ bucket' = BucketName
                      /\ key' = ObjectKey
                      /\ hpc' = "start_job"
                      /\ event' = ParsedEvent
                      /\ UNCHANGED <<raised, result>>
                 [] event.s3 # "flat" /\ event.records = "notification" ->
                      /\ bucket' = BucketName
                      /\ key' = UnquotePlus(ObjectKey)
                      /\ hpc' = "start_job"
                      /\ event' = ParsedEvent
                      /\ UNCHANGED <<raised, result>>
                 [] event.s3 # "flat" /\ event.records = "malformed" ->
                      \* rec["s3"]["bucket"]["name"] raises, re-raised at line 459
                      /\ HandlerRaise(Exception("KeyError", "bucket", "parse"))
                      /\ UNCHANGED <<event, bucket, key>>
                 [] event.s3 \in {"nested", "nested_no_key"}
                    /\ event.records \notin {"notification", "malformed"} ->
                      /\ bucket' = BucketName
                      /\ key' = IF event.s3 = "nested" THEN ObjectKey ELSE NONE
                      /\ hpc' = "start_job"
                      /\ event' = ParsedEvent
                      /\ UNCHANGED <<raised, result>>
                 [] OTHER ->
                      /\ HandlerRaise(Exception("ValueError", "Unsupported event format", "parse"))
                      /\ UNCHANGED <<event, bucket, key>>
    /\ UNCHANGED << elapsed, blocks, pages, full_text, h_chunks, idx, extractions,
                    errors, responses, merge_calls, submissions, invocations >>
    /\ UNCHANGED otherVars

\* a handler whose OCR phase is not wrapped in try/except: the submission
\* error leaves handler
StartTextractJobUncaught ==
    /\ hpc = "start_job"
    /\ submissions' = submissions + 1
    /\ \E ok \in BOOLEAN :
          /\ ok => key # NONE
          /\ IF ok
             THEN /\ hpc' = "wait"
                  /\ elapsed' = 0
                  /\ UNCHANGED <<raised, result>>
             ELSE /\ HandlerRaise(Exception("ClientError", "start_document_text_detection failed", "ocr"))
                  /\ UNCHANGED elapsed
    /\ UNCHANGED << event, contract_id, bucket, key, blocks, pages, full_text, h_chunks, idx,
                    extractions, errors, responses, merge_calls, invocations >>
    /\ UNCHANGED otherVars

\* lines 469, 350-363 and 476-478: the job is submitted; a key of None is
\* refused by the client, and any submission may fail
StartTextractJob ==
    /\ hpc = "start_job"
    /\ submissions' = submissions + 1
    /\ \E ok \in BOOLEAN :
          /\ ok => key # NONE
          /\ IF ok
             THEN /\ hpc' = "wait"
                  /\ elapsed' = 0
                  /\ UNCHANGED <<raised, result>>
             ELSE /\ HandlerReturn(ErrorResult("start_document_text_detection failed", contract_id))
                  /\ UNCHANGED elapsed
    /\ UNCHANGED << event, contract_id, bucket, key, blocks, pages, full_text, h_chunks, idx,
                    extractions, errors, responses, merge_calls, invocations >>
    /\ UNCHANGED otherVars

\* a handler that answers a timed-out wait by submitting the job again
PollTextractResubmitting ==
    /\ hpc = "wait"
    /\ \E status \in JobStatuses \cup {"raise"}, latency \in {0, 1} :
          LET now == elapsed + latency
          IN  CASE status = "raise" ->
                     /\ HandlerReturn(ErrorResult("get_document_text_detection failed", contract_id))
                     /\ UNCHANGED elapsed
                [] status \in {"SUCCEEDED", "PARTIAL_SUCCESS"} ->
                     /\ hpc' = "get_text"
                     /\ elapsed' = 0
                     /\ UNCHANGED <<raised, result>>
                [] status = "FAILED" ->
                     /\ HandlerReturn(ErrorResult("Textract job ended with status=FAILED", contract_id))
                     /\ UNCHANGED elapsed
                [] OTHER ->
                     IF now > TEXTRACT_WAIT_TIMEOUT
                     THEN /\ hpc' = "start_job"
                          /\ UNCHANGED <<elapsed, raised, result>>
                     ELSE /\ elapsed' = now + PollSleep
                          /\ UNCHANGED <<hpc, raised, result>>
    /\ UNCHANGED << event, contract_id, bucket, key, blocks, pages, full_text, h_chunks, idx,
                    extractions, errors, responses, merge_calls, submissions, invocations >>
    /\ UNCHANGED otherVars

\* lines 374-410 and 476-478: one iteration of the poll loop; the status call
\* takes `latency` seconds and may raise
PollTextract ==
    /\ hpc = "wait"
    /\ \E status \in JobStatuses \cup {"raise"}, latency \in {0, 1} :
          LET now == elapsed + latency
          IN  CASE status = "raise" ->
                     /\ HandlerReturn(ErrorResult("get_document_text_detection failed", contract_id))
                     /\ UNCHANGED elapsed
                [] status \in {"SUCCEEDED", "PARTIAL_SUCCESS"} ->
                     /\ hpc' = "get_text"
                     /\ elapsed' = 0
                     /\ UNCHANGED <<raised, result>>
                [] status = "FAILED" ->
                     /\ HandlerReturn(ErrorResult("Textract job ended with status=FAILED", contract_id))
                     /\ UNCHANGED elapsed
                [] OTHER ->
                     IF now > TEXTRACT_WAIT_TIMEOUT
                     THEN /\ HandlerReturn(ErrorResult("Timed out waiting for Textract job", contract_id))
                          /\ UNCHANGED elapsed
                     ELSE /\ elapsed' = now + PollSleep
                          /\ UNCHANGED <<hpc, raised, result>>
    /\ UNCHANGED << event, contract_id, bucket, key, blocks, pages, full_text, h_chunks, idx,
                    extractions, errors, responses, merge_calls, submissions, invocations >>
    /\ UNCHANGED otherVars

\* a handler without the test of lines 472-475: it chunks whatever text it got
GetTextractPageUnchecked ==
    /\ hpc = "get_text"
    /\ \E page \in ResultPages, has_token \in BOOLEAN, fails \in BOOLEAN :
          /\ has_token => pages + 1 < MaxPages
          /\ IF fails
             THEN /\ HandlerReturn(ErrorResult("get_document_text_detection failed", contract_id))
                  /\ UNCHANGED <<blocks, pages, full_text, h_chunks>>
             ELSE IF has_token
             THEN /\ blocks' = blocks \o page
                  /\ pages' = pages + 1
                  /\ UNCHANGED <<hpc, raised, result, full_text, h_chunks>>
             ELSE LET txt == TextOfBlocks(blocks \o page)
                  IN  /\ blocks' = <<>>
                      /\ pages' = 0
                      /\ full_text' = txt
                      /\ h_chunks' = _chunk_text(txt, MAX_CHARS_PER_CHUNK)
                      /\ hpc' = "extract"
                      /\ UNCHANGED <<raised, result>>
    /\ UNCHANGED << event, contract_id, bucket, key, elapsed, idx, extractions, errors,
                    responses, merge_calls, submissions, invocations >>
    /\ UNCHANGED otherVars

\* lines 417-429 and 472-481: one result page is fetched; after the last one
\* the text is assembled, checked and chunked
GetTextractPage ==
    /\ hpc = "get_text"
    /\ \E page \in ResultPages, has_token \in BOOLEAN, fails \in BOOLEAN :
          /\ has_token => pages + 1 < MaxPages
          /\ IF fails
             THEN /\ HandlerReturn(ErrorResult("get_document_text_detection failed", contract_id))
                  /\ UNCHANGED <<blocks, pages, full_text, h_chunks>>
             ELSE IF has_token
             THEN /\ blocks' = blocks \o page
                  /\ pages' = pages + 1
                  /\ UNCHANGED <<hpc, raised, result, full_text, h_chunks>>
             ELSE LET txt == TextOfBlocks(blocks \o page)
                  IN  /\ blocks' = <<>>
                      /\ pages' = 0
                      /\ full_text' = txt
                      /\ IF txt = <<>>
                         THEN /\ HandlerReturn(ErrorResult("Textract returned empty text", contract_id))
                              /\ UNCHANGED h_chunks
                         ELSE /\ h_chunks' = _chunk_text(txt, MAX_CHARS_PER_CHUNK)
                              /\ hpc' = "extract"
                              /\ UNCHANGED <<raised, result>>
    /\ UNCHANGED << event, contract_id, bucket, key, elapsed, idx, extractions, errors,
                    responses, merge_calls, submissions, invocations >>
    /\ UNCHANGED otherVars

\* the entry of bedrock_failures for chunk n: f"chunk[{idx}]: {type(e).__name__}: {e}"
Failure(n, r) == [chunk |-> n, etype |-> r.etype, msg |-> r.msg]

\* an extraction loop that gives up at the first chunk that fails
InvokeChunkAbortOnFailure ==
    /\ hpc = "extract"
    /\ idx < Len(h_chunks)
    /\ \E resp \in ModelResponses :
          LET r == _invoke_bedrock(resp)
          IN  /\ responses' = Append(responses, resp)
              /\ invocations' = Append(invocations, idx)
              /\ IF r.ok
                 THEN /\ extractions' = Append(extractions, r.value)
                      /\ idx' = idx + 1
                      /\ UNCHANGED <<errors, hpc, raised, result>>
                 ELSE /\ errors' = Append(errors, Failure(idx, r))
                      /\ HandlerReturn(ErrorResult(r.msg, contract_id))
                      /\ UNCHANGED <<extractions, idx>>
    /\ UNCHANGED << event, contract_id, bucket, key, elapsed, blocks, pages, full_text,
                    h_chunks, merge_calls, submissions >>
    /\ UNCHANGED otherVars

\* an extraction loop that tries a chunk a second time when its first call fails
InvokeChunkRetrying ==
    /\ hpc = "extract"
    /\ idx < Len(h_chunks)
    /\ \E resp \in ModelResponses :
          LET r == _invoke_bedrock(resp)
              first_try == errors = <<>> \/ errors[Len(errors)].chunk # idx
          IN  /\ responses' = Append(responses, resp)
              /\ invocations' = Append(invocations, idx)
              /\ IF r.ok
                 THEN /\ extractions' = Append(extractions, r.value)
                      /\ idx' = idx + 1
                      /\ UNCHANGED errors
                 ELSE /\ errors' = Append(errors, Failure(idx, r))
                      /\ idx' = IF first_try THEN idx ELSE idx + 1
                      /\ UNCHANGED extractions
    /\ UNCHANGED << event, hpc, contract_id, bucket, key, elapsed, blocks, pages, full_text,
                    h_chunks, merge_calls, submissions, raised, result >>
    /\ UNCHANGED otherVars

\* lines 485-491: one iteration of the extraction loop
InvokeChunk ==
    /\ hpc = "extract"
    /\ idx < Len(h_chunks)
    /\ \E resp \in ModelResponses :
          LET r == _invoke_bedrock(resp)
          IN  /\ responses' = Append(responses, resp)
              /\ invocations' = Append(invocations, idx)
              /\ IF r.ok
                 THEN /\ extractions' = Append(extractions, r.value)
                      /\ UNCHANGED errors
                 ELSE /\ errors' = Append(errors, Failure(idx, r))
                      /\ UNCHANGED extractions
    /\ idx' = idx + 1
    /\ UNCHANGED << event, hpc, contract_id, bucket, key, elapsed, blocks, pages, full_text,
                    h_chunks, merge_calls, submissions, raised, result >>
    /\ UNCHANGED otherVars

\* a handler that merges whatever it has: the test of lines 493-496 is missing
FinishWithoutAllFailedCheck ==
    /\ hpc = "extract"
    /\ idx = Len(h_chunks)
    /\ LET merged == _merge_extractions(extractions)
           verdict == _validate_schema_minimal(merged)
       IN  /\ merge_calls' = merge_calls + 1
           /\ IF verdict # Accept
              THEN HandlerReturn(ErrorResult(verdict.err, contract_id))
              ELSE HandlerReturn([ contract_id |-> contract_id,
                                   source |-> [bucket |-> bucket, key |-> key],
                                   extracted |-> merged,
                                   chunk_count |-> Len(h_chunks),
                                   bedrock_failures |-> errors,
                                   status |-> "INGESTED" ])
    /\ UNCHANGED << event, contract_id, bucket, key, elapsed, blocks, pages, full_text,
                    h_chunks, idx, extractions, errors, responses, submissions, invocations >>
    /\ UNCHANGED otherVars

\* lines 493-515: after the loop
Finish ==
    /\ hpc = "extract"
    /\ idx = Len(h_chunks)
    /\ IF extractions = <<>>
       THEN /\ HandlerReturn(ErrorResult("All Bedrock extractions failed", contract_id))
            /\ UNCHANGED merge_calls
       ELSE LET merged == _merge_extractions(extractions)
                verdict == _validate_schema_minimal(merged)
            IN  /\ merge_calls' = merge_calls + 1
                /\ IF verdict # Accept
                   THEN HandlerReturn(ErrorResult(verdict.err, contract_id))
                   ELSE HandlerReturn([ contract_id |-> contract_id,
                                        source |-> [bucket |-> bucket, key |-> key],
                                        extracted |-> merged,
                                        chunk_count |-> Len(h_chunks),
                                        bedrock_failures |-> errors,
                                        status |-> "INGESTED" ])
    /\ UNCHANGED << event, contract_id, bucket, key, elapsed, blocks, pages, full_text,
                    h_chunks, idx, extractions, errors, responses, submissions, invocations >>
    /\ UNCHANGED otherVars

Init == HandlerInit

Next ==
    \/ ParseEvent
    \/ StartTextractJob
    \/ PollTextract
    \/ GetTextractPage
    \/ InvokeChunk
    \/ Finish

Spec == Init /\ [][Next]_vars

(***************************************************************************)
(* Properties of _merge_extractions and _validate_schema_minimal           *)
(***************************************************************************)
\* the value of field k in the lowest-index record of exts where it is not
\* None, or None
FirstNonNull(exts, k) ==
    LET filled == {n \in 1..Len(exts) : exts[n].d[k] # NONE}
    IN  IF filled = {} THEN NONE
        ELSE exts[CHOOSE n \in filled : \A q \in filled : n <= q].d[k]

\* C1: after any number of records the merge has processed, and so in the
\* value it returns, every field holds the value of the lowest-index record
\* that has it non-null, or null when there is none; a filled field is
\* therefore never replaced by a later record.
C1_MergeFirstNonNullWins ==
    mpc \in {"loop", "returned"} =>
        /\ m_merged.t = "dict"
        /\ DOMAIN m_merged.d = FieldSet
        /\ \A k \in FieldSet :
               m_merged.d[k] = FirstNonNull(SubSeq(m_extractions, 1, m_idx), k)

\* the merge returned; a later record offered another value for a field that
\* an earlier one had filled, and a field was filled by the second record only
C1_Witness ==
    /\ mpc = "returned"
    /\ Len(m_extractions) >= 2
    /\ m_extractions[1].d["governing_law"] = NONE
    /\ m_extractions[2].d["governing_law"] = PyStr(<<"N", "Y">>)
    /\ m_extractions[1].d["payment_terms"] = PyStr(<<"C", "A">>)
    /\ m_extractions[2].d["payment_terms"] = PyStr(<<"N", "Y">>)
    /\ m_merged.d["payment_terms"] = PyStr(<<"C", "A">>)
    /\ m_merged.d["governing_law"] = PyStr(<<"N", "Y">>)

\* C6: the validator returns normally exactly for a mapping whose key set is
\* the 7 field names and whose values are all strings or null; every other
\* input (non-mapping, foreign key, missing field, other value type) raises.
C6_ValidatorClosedAllOrNothing ==
    vpc = "done" =>
        /\ (v_verdict = Accept) <=>
               /\ v_obj.t = "dict"
               /\ DOMAIN v_obj.d = FieldSet
               /\ \A k \in FieldSet : v_obj.d[k].t \in {"str", "null"}
        /\ v_verdict # Accept =>
               v_verdict.err \in { "Extraction output is not an object",
                                   "Unexpected fields in output",
                                   "Missing required fields",
                                   "must be string or null" }

\* a mapping with the 7 fields, all valid, and one foreign key was rejected
C6_Witness ==
    /\ vpc = "done"
    /\ v_obj.t = "dict"
    /\ DOMAIN v_obj.d = AllKeys
    /\ \A k \in AllKeys : v_obj.d[k].t = "str"
    /\ v_verdict.err = "Unexpected fields in output"

(***************************************************************************)
(* Properties of handler                                                   *)
(***************************************************************************)
\* the 0-based indices of the chunks processed so far whose _invoke_bedrock
\* call raised (model call, JSON recovery or validation)
FailedChunks == {n \in 0..(Len(responses) - 1) : ~_invoke_bedrock(responses[n + 1]).ok}

AllChunks == 0..(Len(h_chunks) - 1)

\* the records of the chunks that did not fail, in chunk order
RECURSIVE SucceededRecords(_)
SucceededRecords(rs) ==
    IF rs = <<>> THEN <<>>
    ELSE (IF _invoke_bedrock(rs[1]).ok THEN <<_invoke_bedrock(rs[1]).value>> ELSE <<>>)
         \o SucceededRecords(Tail(rs))

\* r is an ExtractionRecord: exactly the 7 keys, every value a string or null
IsExtractionRecord(r) ==
    /\ r.t = "dict"
    /\ DOMAIN r.d = FieldSet
    /\ \A k \in FieldSet : r.d[k].t \in {"str", "null"}

HasStatus(st) == "status" \in DOMAIN result /\ result.status = st

\* C2: when some but not all chunks fail, handler still processes every
\* chunk, records one bedrock_failures entry per failed chunk in increasing
\* index order naming that index, merges exactly the records of the other
\* chunks in chunk order, reports chunk_count = n and returns INGESTED.
C2_PerChunkFailureIsolation ==
    (hpc = "done" /\ FailedChunks # {} /\ FailedChunks # AllChunks) =>
        /\ Len(responses) = Len(h_chunks)
        /\ raised = NoException
        /\ HasStatus("INGESTED")
        /\ result.chunk_count = Len(h_chunks)
        /\ Len(result.bedrock_failures) = Cardinality(FailedChunks)
        /\ {result.bedrock_failures[j].chunk : j \in 1..Len(result.bedrock_failures)}
               = FailedChunks
        /\ \A p, q \in 1..Len(result.bedrock_failures) :
               p < q => result.bedrock_failures[p].chunk < result.bedrock_failures[q].chunk
        /\ extractions = SucceededRecords(responses)
        /\ merge_calls = 1
        /\ result.extracted = _merge_extractions(SucceededRecords(responses))

\* three chunks, the middle one failed, the result is INGESTED
C2_Witness ==
    /\ hpc = "done"
    /\ Len(h_chunks) = 3
    /\ FailedChunks = {1}
    /\ HasStatus("INGESTED")
    /\ Len(result.bedrock_failures) = 1
    /\ Len(extractions) = 2

\* C3: when every chunk fails, handler ends with the all-failed error and
\* _merge_extractions is not called; and once the chunks exist, handler ends
\* in an error only when all of them failed.
C3_AllChunksFailed ==
    (hpc = "done" /\ h_chunks # <<>>) =>
        /\ raised = NoException
        /\ FailedChunks = AllChunks =>
               /\ result = ErrorResult("All Bedrock extractions failed", contract_id)
               /\ merge_calls = 0
        /\ HasStatus("error") => FailedChunks = AllChunks

\* two chunks, both failed, in different ways
C3_Witness ==
    /\ hpc = "done"
    /\ Len(h_chunks) = 2
    /\ Len(responses) = 2
    /\ responses[1].kind = "invoke_error"
    /\ responses[2].kind = "no_json"
    /\ HasStatus("error")
    /\ merge_calls = 0

\* the locator of event e is parsed by lines 445-463
LocatorParses(e) ==
    /\ e.is_dict
    /\ \/ e.s3 = "flat"
       \/ e.records = "notification"
       \/ e.s3 \in {"nested", "nested_no_key"} /\ e.records # "malformed"

\* C4, as claimed: handler never lets an exception out; whatever the event,
\* it returns a result with contract_id and status, and a failure carries
\* status "error" and a reason.
C4_NeverRaises ==
    hpc = "done" =>
        /\ raised = NoException
        /\ {"contract_id", "status"} \subseteq DOMAIN result
        /\ result.status = "error" => "reason" \in DOMAIN result

\* C4, amended: handler lets an exception out exactly when the event is not a
\* dict, has no recognised s3/Records locator or holds a malformed S3
\* notification record, and then before any OCR job is submitted; for every
\* other event it returns a result with contract_id and status, the status
\* being INGESTED or "error", and "error" comes with a reason.
C4_RaisesOnlyWhileParsing ==
    hpc = "done" =>
        IF event # ParsedEvent
        THEN /\ ~LocatorParses(event)
             /\ raised # NoException
             /\ raised.at = "parse"
             /\ raised.etype \in {"ValueError", "KeyError"}
             /\ result = NoResult
        ELSE /\ raised = NoException
             /\ {"contract_id", "status"} \subseteq DOMAIN result
             /\ result.contract_id \in {PyStr(<<"c", "1">>), FreshUuid}
             /\ result.status \in {"INGESTED", "error"}
             /\ result.status = "error" =>
                    /\ "reason" \in DOMAIN result
                    /\ result.reason # ""

\* a timed-out OCR job ended in an error result
C4_Witness ==
    /\ hpc = "done"
    /\ event = ParsedEvent
    /\ HasStatus("error")
    /\ result.reason = "Timed out waiting for Textract job"
    /\ result.contract_id = FreshUuid

\* C5, as claimed: a model output that holds a key outside the 7 fields is
\* rejected, that is, its chunk is recorded in `errors` and contributes no
\* record to `extractions`.
C5_ForeignKeyRejected ==
    \A n \in 1..Len(responses) :
        (responses[n].kind = "object" /\ ~(DOMAIN responses[n].obj.d \subseteq FieldSet)) =>
            \E j \in 1..Len(errors) : errors[j].chunk = n - 1

\* C7: every record in the merge input, and `extracted` of every INGESTED
\* result, has exactly the 7 field names as keys and strings or null as values.
C7_ExtractionRecordInvariant ==
    /\ \A n \in 1..Len(extractions) : IsExtractionRecord(extractions[n])
    /\ (hpc = "done" /\ HasStatus("INGESTED")) => IsExtractionRecord(result.extracted)

\* an INGESTED result built from a model output with fields missing and
\* values that were no strings
C7_Witness ==
    /\ hpc = "done"
    /\ HasStatus("INGESTED")
    /\ Len(responses) = 1
    /\ responses[1].kind = "object"
    /\ DOMAIN responses[1].obj.d # FieldSet
    /\ responses[1].obj.d["payment_terms"] = PyNum(30)
    /\ result.extracted.d["payment_terms"] = PyStr(<<"3", "0">>)

(***************************************************************************)
(* Properties of _chunk_text                                               *)
(***************************************************************************)
\* first position p <= q <= Len(s) + 1 that does not hold a space
RECURSIVE SkipSpaces(_, _)
SkipSpaces(s, p) == IF p <= Len(s) /\ s[p] = " " THEN SkipSpaces(s, p + 1) ELSE p

\* cs, laid end to end from position p of s with only spaces between them,
\* cover s to its end
RECURSIVE Reassembles(_, _, _)
Reassembles(cs, s, p) ==
    LET q == SkipSpaces(s, p)
    IN  IF cs = <<>> THEN q = Len(s) + 1
        ELSE /\ q + Len(cs[1]) - 1 <= Len(s)
             /\ SubSeq(s, q, q + Len(cs[1]) - 1) = cs[1]
             /\ Reassembles(Tail(cs), s, q + Len(cs[1]))

RECURSIVE SumLen(_)
SumLen(cs) == IF cs = <<>> THEN 0 ELSE Len(cs[1]) + SumLen(Tail(cs))

\* the slice of text between the (k-1)-th and the k-th cut
CutSlice(k) == Slice(text, IF k = 1 THEN 0 ELSE cuts[k - 1], cuts[k])

\* s is whitespace-normalized: single spaces only, and only between two
\* non-whitespace characters
IsCollapsed(s) ==
    \A k \in 1..Len(s) :
        s[k] \in Whitespace =>
            /\ s[k] = " "
            /\ 1 < k /\ k < Len(s)
            /\ s[k - 1] \notin Whitespace
            /\ s[k + 1] \notin Whitespace

Carved == ckpc = "returned" /\ Len(text) > max_chars

\* C8: for a text whose normalized length exceeds max_chars, the returned
\* chunks are, in order, the trimmed non-empty forms of consecutive slices of
\* the normalized text that start at 0, abut, and end at its end; laid end to
\* end with only the trimmed boundary spaces between them they give back the
\* normalized text.
C8_SegmenterCoverage ==
    Carved =>
        /\ Len(cuts) = Len(chunks)
        /\ cuts[Len(cuts)] = Len(text)
        /\ \A k \in 1..Len(cuts) :
               /\ (IF k = 1 THEN 0 ELSE cuts[k - 1]) < cuts[k]
               /\ chunks[k] = PyStrip(CutSlice(k))
        /\ filtered_chunks = SelectSeq(chunks, LAMBDA c : Len(c) > 0)
        /\ Reassembles(filtered_chunks, text, 1)

\* a carved text with a sentence cut or space cut whose boundary space was
\* trimmed away, and with a dropped empty slice or a hard cut
C8_Witness ==
    /\ Carved
    /\ Len(filtered_chunks) >= 3
    /\ SumLen(filtered_chunks) < Len(text)
    /\ \E k \in 1..Len(cuts) : text[cuts[k]] # " " /\ cuts[k] < Len(text)
                               /\ text[cuts[k] + 1] # " "

C10_SegmenterRoundTrip ==
    (ckpc = "returned" /\ Len(rawText) <= max_chars) =>
        /\ Len(filtered_chunks) = 1
        /\ IsCollapsed(filtered_chunks[1])
        /\ PySplit(filtered_chunks[1]) = PySplit(rawText)

\* a short text with two words whose whitespace had to be collapsed
C10_Witness ==
    /\ ckpc = "returned"
    /\ Len(rawText) <= max_chars
    /\ Len(PySplit(rawText)) >= 2
    /\ Len(filtered_chunks) = 1
    /\ Len(filtered_chunks[1]) + 2 <= Len(rawText)

(***************************************************************************)
(* Properties of the OCR phase of handler                                  *)
(***************************************************************************)
HasReason(r) == HasStatus("error") /\ result.reason = r

\* C13: one invocation of handler submits the OCR job at most once; after a
\* timed-out wait or a FAILED job it has ended with an error result, the job
\* having been submitted exactly once, and every later phase runs on that
\* single submission.
C13_NoResubmission ==
    /\ submissions <= 1
    /\ hpc \in {"wait", "get_text", "extract"} => submissions = 1
    /\ hpc = "start_job" => submissions = 0
    /\ \A r \in {"Timed out waiting for Textract job", "Textract job ended with status=FAILED"} :
          HasReason(r) => /\ hpc = "done"
                          /\ submissions = 1
                          /\ raised = NoException

\* the wait timed out
C13_Witness ==
    /\ hpc = "done"
    /\ HasReason("Timed out waiting for Textract job")
    /\ submissions = 1

\* C15: an empty OCR text does not leave _get_textract_text as an exception:
\* handler tests the returned text itself and ends with the empty-text error
\* result, no chunk having been cut and the model not having been invoked;
\* the chunking and extraction phases only ever run on a non-empty text.
C15_EmptyTextIsCallerError ==
    /\ HasReason("Textract returned empty text") =>
          /\ hpc = "done"
          /\ raised = NoException
          /\ full_text = <<>>
          /\ h_chunks = <<>>
          /\ responses = <<>>
          /\ merge_calls = 0
    /\ (hpc = "extract" \/ h_chunks # <<>> \/ responses # <<>>) => full_text # <<>>

\* retrieval succeeded and gave no text
C15_Witness ==
    /\ hpc = "done"
    /\ HasReason("Textract returned empty text")
    /\ submissions = 1
    /\ h_chunks = <<>>

(***************************************************************************)
(* _wait_for_textract: src/agents/ingestion/main.py:366-410 and the copy   *)
(* of src/agents/compliance/main-2.py:360-384                              *)
(***************************************************************************)
\* largest timeout_seconds argument tried
MaxTimeout == 3

\* a status response; JobStatus = "MISSING" is a response without the key,
\* StatusMessage = NONE a response without that key
StatusResponses ==
    { [JobStatus |-> st, StatusMessage |-> m] :
        st \in JobStatuses \cup {"MISSING"},
        m \in {NONE, PyStr(<<>>), PyStr(<<"b", "a", "d">>)} }

\* a timeout test that lets one more sleep pass
ExpiredLate(t, limit) == t > limit + PollSleep

\* line 401 (main-2.py:380): elapsed > timeout_seconds
Expired(t, limit) == t > limit

\* line 395: resp.get("StatusMessage") or resp
FailureInfo(resp) == PyOr(resp.StatusMessage, [t |-> "resp", resp |-> resp])

WaitInit ==
    /\ w_copy \in {"ingestion", "compliance"}
    /\ timeout_seconds \in
          {PyNum(n) : n \in 0..MaxTimeout} \cup (IF w_copy = "ingestion" THEN {NONE} ELSE {})
    /\ clock = 0
    /\ last_resp = NONE
    /\ w_elapsed = 0
    /\ w_statuses = <<>>
    /\ w_outcome = Pending
    /\ wpc = "entry"
    /\ GetTextIdle
    /\ RiskIdle
    /\ JsonIdle
    /\ NormIdle
    /\ ChunkIdle
    /\ ValidateIdle
    /\ MergeIdle
    /\ HandlerIdle
    /\ LateIdle

\* lines 367-373 (main-2.py:361-364): the default timeout, start = time.time()
WaitEntry ==
    /\ wpc = "entry"
    /\ timeout_seconds' = IF timeout_seconds = NONE THEN PyNum(TEXTRACT_WAIT_TIMEOUT)
                          ELSE timeout_seconds
    /\ clock' = 0
    /\ wpc' = "polling"
    /\ UNCHANGED <<w_copy, last_resp, w_elapsed, w_statuses, w_outcome>>
    /\ UNCHANGED <<getTextVars, riskVars, jsonVars, normVars, chunkVars, validateVars, mergeVars, handlerVars, lateVars>>

\* the call ends
WaitEnds(outcome) ==
    /\ w_outcome' = outcome
    /\ wpc' = "done"

\* lines 374-410: one iteration of the poll loop of ingestion/main.py
WaitPoll ==
    /\ wpc = "polling"
    /\ w_copy = "ingestion"
    \* the status call takes `latency` seconds, time.sleep(2) lasts `slept` seconds
    /\ \E call_fails \in BOOLEAN, resp \in StatusResponses,
          latency \in {0, 1}, slept \in {PollSleep, PollSleep + 1} :
          LET t == clock + latency
              status == resp.JobStatus
          IN  IF call_fails
              THEN \* lines 378-380
                   /\ WaitEnds(Raises("ClientError", NONE))
                   /\ clock' = t
                   /\ UNCHANGED <<last_resp, w_elapsed, w_statuses>>
              ELSE /\ last_resp' = resp
                   /\ w_statuses' = Append(w_statuses, status)
                   /\ CASE status \in {"SUCCEEDED", "PARTIAL_SUCCESS"} ->
                             /\ WaitEnds(Returns(NONE))
                             /\ clock' = t
                             /\ UNCHANGED w_elapsed
                        [] status = "FAILED" ->
                             /\ WaitEnds(Raises("RuntimeError", FailureInfo(resp)))
                             /\ clock' = t
                             /\ UNCHANGED w_elapsed
                        [] OTHER ->
                             /\ w_elapsed' = t
                             /\ IF Expired(t, timeout_seconds.n)
                                THEN /\ WaitEnds(Raises("TimeoutError", [t |-> "resp", resp |-> resp]))
                                     /\ clock' = t
                                ELSE /\ clock' = t + slept
                                     /\ UNCHANGED <<w_outcome, wpc>>
    /\ UNCHANGED <<w_copy, timeout_seconds>>
    /\ UNCHANGED <<getTextVars, riskVars, jsonVars, normVars, chunkVars, validateVars, mergeVars, handlerVars, lateVars>>

\* main-2.py:364-384: one iteration of the poll loop of compliance/main-2.py
WaitPollCompliance ==
    /\ wpc = "polling"
    /\ w_copy = "compliance"
    \* the status call takes `latency` seconds, time.sleep(2) lasts `slept` seconds
    /\ \E call_fails \in BOOLEAN, resp \in StatusResponses,
          latency \in {0, 1}, slept \in {PollSleep, PollSleep + 1} :
          LET t == clock + latency
              status == resp.JobStatus
          IN  IF call_fails
              THEN /\ WaitEnds(Raises("ClientError", NONE))
                   /\ clock' = t
                   /\ UNCHANGED <<last_resp, w_elapsed, w_statuses>>
              ELSE /\ last_resp' = resp
                   /\ w_statuses' = Append(w_statuses, status)
                   /\ IF status = "MISSING"
                      THEN \* resp["JobStatus"], main-2.py:368
                           /\ WaitEnds(Raises("KeyError", PyStr(<<"J", "o", "b", "S", "t", "a", "t", "u", "s">>)))
                           /\ clock' = t
                           /\ UNCHANGED w_elapsed
                      ELSE /\ w_elapsed' = t
                           /\ CASE status = "SUCCEEDED" ->
                                     /\ WaitEnds(Returns(NONE))
                                     /\ clock' = t
                                [] status \in {"FAILED", "PARTIAL_SUCCESS"} ->
                                     \* f"Textract job ended with status={status}"
                                     /\ WaitEnds(Raises("RuntimeError", [t |-> "status", status |-> status]))
                                     /\ clock' = t
                                [] OTHER ->
                                     IF Expired(t, timeout_seconds.n)
                                     THEN /\ WaitEnds(Raises("TimeoutError", NONE))
                                          /\ clock' = t
                                     ELSE /\ clock' = t + slept
                                          /\ UNCHANGED <<w_outcome, wpc>>
    /\ UNCHANGED <<w_copy, timeout_seconds>>
    /\ UNCHANGED <<getTextVars, riskVars, jsonVars, normVars, chunkVars, validateVars, mergeVars, handlerVars, lateVars>>

WaitNext ==
    \/ WaitEntry
    \/ WaitPoll
    \/ WaitPollCompliance

SpecWait == WaitInit /\ [][WaitNext]_vars

\* the loop body always runs to its end: no step of it blocks for ever
SpecWaitFair == SpecWait /\ WF_vars(WaitNext)

(***************************************************************************)
(* Properties of _wait_for_textract                                        *)
(***************************************************************************)
LastStatus == w_statuses[Len(w_statuses)]

SuccessStatuses == {"SUCCEEDED", "PARTIAL_SUCCESS"}
TerminalStatuses == SuccessStatuses \cup {"FAILED"}

\* the call ended and every status call returned a response
WaitEndedOnStatus ==
    /\ wpc = "done"
    /\ w_statuses # <<>>
    /\ w_outcome.etype # "ClientError"

\* C11: in every copy of the poll loop, the call returns normally exactly when
\* the last poll observed SUCCEEDED or PARTIAL_SUCCESS, and a poll that
\* observes FAILED raises the job-failed error, which carries the response's
\* StatusMessage when there is one.
C11_TerminalStates ==
    WaitEndedOnStatus =>
        /\ (w_outcome.kind = "returned") <=> (LastStatus \in SuccessStatuses)
        /\ LastStatus = "FAILED" =>
              /\ w_outcome.etype = "RuntimeError"
              /\ last_resp.StatusMessage \notin {NONE, PyStr(<<>>)} =>
                    w_outcome.info = last_resp.StatusMessage

\* what C12 says of every state of the ingestion poll loop
C12_Outcome ==
    w_copy = "ingestion" =>
        /\ wpc = "polling" =>
              /\ w_outcome = Pending
              /\ \A n \in 1..Len(w_statuses) : w_statuses[n] \notin TerminalStatuses
              /\ w_elapsed <= timeout_seconds.n
        /\ WaitEndedOnStatus =>
              \/ /\ w_outcome.kind = "returned"
                 /\ LastStatus \in SuccessStatuses
              \/ /\ w_outcome.etype = "RuntimeError"
                 /\ LastStatus = "FAILED"
              \/ /\ w_outcome.etype = "TimeoutError"
                 /\ LastStatus \notin TerminalStatuses
                 /\ w_elapsed > timeout_seconds.n

\* C12: with the clock advancing at every status call and sleep, the poll
\* loop of ingestion/main.py always ends; whatever statuses the service
\* returned it ends with exactly one of success, the job-failed error or the
\* timeout error, and it never polls again once a non-terminal status was
\* seen with elapsed > timeout_seconds: it ends with the timeout error.
C12_BoundedWait == [](C12_Outcome) /\ <>(wpc = "done")

\* the loop timed out after unknown and missing statuses
C12_Witness ==
    /\ w_copy = "ingestion"
    /\ wpc = "done"
    /\ w_outcome.etype = "TimeoutError"
    /\ Len(w_statuses) >= 3
    /\ \E a, b \in 1..Len(w_statuses) : w_statuses[a] = "UNKNOWN" /\ w_statuses[b] = "MISSING"

(***************************************************************************)
(* _get_textract_text: src/agents/ingestion/main.py:413-429                *)
(***************************************************************************)
\* `if next_token` / `if not next_token` for a str-or-None
Truthy(tok) == tok # NONE /\ tok # PyStr(<<>>)

GetTextInit ==
    /\ g_blocks = <<>>
    /\ next_token = NONE
    /\ g_requests = <<>>
    /\ g_served = <<>>
    /\ g_outcome = Pending
    /\ gpc = "loop"
    /\ WaitIdle
    /\ RiskIdle
    /\ JsonIdle
    /\ NormIdle
    /\ ChunkIdle
    /\ ValidateIdle
    /\ MergeIdle
    /\ HandlerIdle
    /\ LateIdle

\* lines 417-425: one request; the service has at most MaxPages pages to give.
\* The response may lack "Blocks" (has = FALSE), and its NextToken is absent,
\* empty, or one of two tokens
GetTextRequest ==
    /\ gpc = "loop"
    /\ \E has \in BOOLEAN, bs \in ResultPages,
          tok \in {NONE, PyStr(<<>>), PyStr(<<"t", "1">>), PyStr(<<"t", "2">>)} :
          /\ ~has => bs = <<>>
          /\ Truthy(tok) => Len(g_served) + 1 < MaxPages
          /\ g_requests' = Append(g_requests, IF Truthy(next_token) THEN next_token ELSE NONE)
          /\ g_served' = Append(g_served, [has_blocks |-> has, Blocks |-> bs, NextToken |-> tok])
          /\ g_blocks' = g_blocks \o (IF has THEN bs ELSE <<>>)
          /\ next_token' = tok
          /\ gpc' = IF Truthy(tok) THEN "loop" ELSE "assemble"
    /\ UNCHANGED g_outcome
    /\ UNCHANGED <<waitVars, riskVars, jsonVars, normVars, chunkVars, validateVars, mergeVars, handlerVars, lateVars>>

\* lines 426-429
GetTextReturn ==
    /\ gpc = "assemble"
    /\ g_outcome' = Returns(PyStr(TextOfBlocks(g_blocks)))
    /\ gpc' = "done"
    /\ UNCHANGED <<g_blocks, next_token, g_requests, g_served>>
    /\ UNCHANGED <<waitVars, riskVars, jsonVars, normVars, chunkVars, validateVars, mergeVars, handlerVars, lateVars>>

GetTextNext ==
    \/ GetTextRequest
    \/ GetTextReturn

SpecGetText == GetTextInit /\ [][GetTextNext]_vars

(***************************************************************************)
(* Properties of _get_textract_text                                        *)
(***************************************************************************)
\* the blocks of the responses, in the order responses and blocks came
RECURSIVE BlocksServed(_)
BlocksServed(rs) ==
    IF rs = <<>> THEN <<>>
    ELSE (IF rs[1].has_blocks THEN rs[1].Blocks ELSE <<>>) \o BlocksServed(Tail(rs))

IsLineBlock(b) == b.BlockType = "LINE" /\ b.Text # NONE

\* the texts of the LINE blocks served, in order
LineTexts ==
    LET ls == SelectSeq(BlocksServed(g_served), IsLineBlock)
    IN  [n \in 1..Len(ls) |-> ls[n].Text.s]

\* requests go on until a response carries no token, each passing the token
\* of the response before it
Pagination ==
    /\ Len(g_requests) = Len(g_served)
    /\ \A n \in 1..Len(g_requests) :
          g_requests[n] = IF n = 1 THEN NONE ELSE g_served[n - 1].NextToken
    /\ \A n \in 1..(Len(g_served) - 1) : Truthy(g_served[n].NextToken)
    /\ gpc = "loop" => \A n \in 1..Len(g_served) : Truthy(g_served[n].NextToken)
    /\ gpc \in {"assemble", "done"} =>
          /\ g_served # <<>>
          /\ ~Truthy(g_served[Len(g_served)].NextToken)

\* C14 as stated: the result is the texts of the LINE blocks joined by newlines
C14_JoinedLines ==
    /\ Pagination
    /\ gpc = "done" => g_outcome = Returns(PyStr(PyJoin(<<"\n">>, LineTexts)))

\* C14: _get_textract_text requests pages until a response carries no (or an
\* empty) NextToken, passing each response's token to the next request, and
\* returns the texts of the LINE blocks that have a Text, in the order pages
\* and blocks were returned, joined by newlines, the joined text stripped of
\* leading and trailing whitespace.
C14_RetrievalOrder ==
    /\ Pagination
    /\ gpc = "done" => g_outcome = Returns(PyStr(PyStrip(PyJoin(<<"\n">>, LineTexts))))

\* three pages, lines on two of them, the result differs from the plain join
C14_Witness ==
    /\ gpc = "done"
    /\ Len(g_served) = 3
    /\ g_requests[2] # g_requests[3]
    /\ Len(LineTexts) >= 3
    /\ g_outcome.value.s # PyJoin(<<"\n">>, LineTexts)
    /\ g_outcome.value.s # <<>>

(***************************************************************************)
(* The risk agent: src/agents/risk_analysis/main.py                        *)
(*                                                                         *)
(* Numbers of the risk model are held in hundredths (PyNum(701) is 7.01);  *)
(* NAN is the float that json.loads gives for the literal NaN.             *)
(***************************************************************************)
NAN == [t |-> "nan"]

\* HIGH_RISK_THRESHOLD, line 13: 7
HIGH_RISK_THRESHOLD == 700

\* RISK_KEYS, lines 17-23, and the score keys of lines 56 and 169
RISK_KEYS == <<"overall_risk", "liability_risk", "termination_risk", "financial_risk", "rationale">>
RiskKeySet == {RISK_KEYS[n] : n \in 1..Len(RISK_KEYS)}
ScoreKeys == <<"overall_risk", "liability_risk", "termination_risk", "financial_risk">>
ScoreKeySet == {ScoreKeys[n] : n \in 1..Len(ScoreKeys)}

\* isinstance(v, (int, float)): bool is a subclass of int
IsIntOrFloat(v) == v.t \in {"num", "bool", "nan"}

\* v < lo or v > hi for an int, float or bool v: every comparison with NaN is
\* False, True is 1 and False is 0
OutOfRange(v, lo, hi) ==
    CASE v.t = "num" -> v.n < lo \/ v.n > hi
      [] v.t = "bool" -> (IF v.b THEN 100 ELSE 0) < lo \/ (IF v.b THEN 100 ELSE 0) > hi
      [] OTHER -> FALSE

\* float(v) > limit for an int, float or bool v
FloatExceeds(v, limit) ==
    CASE v.t = "num" -> v.n > limit
      [] v.t = "bool" -> (IF v.b THEN 100 ELSE 0) > limit
      [] OTHER -> FALSE

\* the first key of ks, in the order of keys, that is in bad
FirstOf(keys, bad) ==
    keys[CHOOSE n \in 1..Len(keys) : keys[n] \in bad /\ \A q \in 1..(n - 1) : keys[q] \notin bad]

\* lines 43-64: "ok" when it returns, else the ValueError it raises
_validate_risk_output(obj) ==
    IF obj.t # "dict" THEN Reject("Risk output is not an object", {})
    ELSE LET extra == DOMAIN obj.d \ RiskKeySet
             missing == {k \in RiskKeySet : k \notin DOMAIN obj.d}
             bad == {k \in ScoreKeySet :
                        ~IsIntOrFloat(Get(obj, k)) \/ OutOfRange(Get(obj, k), 0, 1000)}
             rationale == Get(obj, "rationale")
         IN  IF extra # {} THEN Reject("Unexpected fields in risk output", extra)
             ELSE IF missing # {} THEN Reject("Missing required fields in risk output", missing)
             ELSE IF bad # {}
                  THEN LET k == FirstOf(ScoreKeys, bad)
                       IN  IF ~IsIntOrFloat(Get(obj, k))
                           THEN Reject("must be a number", {k})
                           ELSE Reject("must be between 0 and 10", {k})
             ELSE IF rationale.t # "str" \/ PyStrip(rationale.s) = <<>>
                  THEN Reject("Field 'rationale' must be a non-empty string", {"rationale"})
             ELSE Accept

\* a flag that looks at overall_risk only
HighRiskFlagOverallOnly(risk, limit) == FloatExceeds(Get(risk, "overall_risk"), limit)

\* lines 163-170
_high_risk_flag(risk, limit) == \E k \in ScoreKeySet : FloatExceeds(Get(risk, k), limit)

\* ---- events ----
\* `extracted` (of the event or of a structured contract) is described by its
\* kind ("absent", "non_dict", "dict") and, for a dict, by the clauses that
\* have a truthy value
ClauseKeys == {"liability_clause", "termination_clause", "payment_terms"}
Extracted(kind, present) == [kind |-> kind, present |-> present]

\* event["structured_contract"]: "absent", "non_dict", or a "dict"
Structured(kind, cid, ext) == [kind |-> kind, contract_id |-> cid, extracted |-> ext]
NoStructured == Structured("none", NONE, Extracted("absent", {}))

RiskEvents ==
    LET ExtractedShapes ==
            { Extracted("absent", {}), Extracted("non_dict", {}), Extracted("dict", {}),
              Extracted("dict", {"liability_clause"}), Extracted("dict", ClauseKeys) }
        StructuredShapes ==
            { Structured("absent", NONE, Extracted("absent", {})),
              Structured("non_dict", NONE, Extracted("absent", {})) }
            \cup { Structured("dict", cid, ext) :
                     cid \in {NONE, PyStr(<<"s", "1">>)}, ext \in ExtractedShapes }
    IN  [ structured_contract : StructuredShapes,
          extracted : ExtractedShapes,
          contract_id : {NONE, PyStr(<<>>), PyStr(<<"c", "1">>)} ]

\* the event once lines 269-272 have read it
ReadEvent ==
    [ structured_contract |-> NoStructured, extracted |-> Extracted("absent", {}),
      contract_id |-> NONE ]

\* lines 173-206; NoStructured is the None the function returns by falling
\* off its end
_extract_structured_contract(e) ==
    IF e.structured_contract.kind = "dict" THEN e.structured_contract
    ELSE IF e.extracted.kind = "dict"
         THEN Structured("dict", PyOr(e.contract_id, FreshUuid), e.extracted)
         ELSE NoStructured

\* ---- the model ----
Rationale == PyStr(<<"o", "k">>)

RiskObject(o, l, t, f, r) ==
    PyDict([k \in RiskKeySet |->
              CASE k = "overall_risk" -> o
                [] k = "liability_risk" -> l
                [] k = "termination_risk" -> t
                [] k = "financial_risk" -> f
                [] OTHER -> r])

\* the objects the model's text may parse to: the 5 keys with scores around
\* the threshold and the ends of the range; one score that is out of range
\* or no number; a rationale that is blank or no string; a key missing; a
\* foreign key
RiskObjects ==
    LET CoreScores == { PyNum(0), PyNum(HIGH_RISK_THRESHOLD), PyNum(HIGH_RISK_THRESHOLD + 1),
                        PyNum(1000), NAN }
        OddScores == {PyNum(-1), PyNum(1001), PyStr(<<"7">>), NONE, PyBool(TRUE)}
        PlainRisk == RiskObject(PyNum(0), PyNum(0), PyNum(0), PyNum(0), Rationale)
    IN  { RiskObject(o, l, t, f, Rationale) :
            o \in CoreScores, l \in CoreScores,
            t \in {PyNum(0), PyNum(HIGH_RISK_THRESHOLD + 1)}, f \in {PyNum(0), PyNum(1000)} }
        \cup { PyDict([PlainRisk.d EXCEPT ![k] = v]) : k \in ScoreKeySet, v \in OddScores }
        \cup { PyDict([PlainRisk.d EXCEPT !["rationale"] = v]) :
                 v \in {NONE, PyStr(<<" ">>), PyStr(<<" ", "r">>)} }
        \cup { PyDict([q \in RiskKeySet \ {k} |-> PlainRisk.d[q]]) : k \in RiskKeySet }
        \cup { PyDict([q \in RiskKeySet \cup {"extra_field"} |->
                         IF q \in RiskKeySet THEN PlainRisk.d[q] ELSE NONE]) }

RiskResponses ==
    { Response("invoke_error", NONE), Response("no_json", NONE), Response("invalid_json", NONE) }
    \cup { Response("object", o) : o \in RiskObjects }

\* lines 130-160: the value _invoke_bedrock returns or the exception it raises
RiskInvokeBedrock(resp) ==
    CASE resp.kind = "invoke_error" -> Raised("ClientError", "invoke_model failed")
      [] resp.kind = "no_json" -> Raised("ValueError", "No JSON object found in model output")
      [] resp.kind = "invalid_json" -> Raised("JSONDecodeError", "Expecting value")
      [] OTHER ->
           LET verdict == _validate_risk_output(resp.obj)
           IN  IF verdict = Accept THEN Returned(resp.obj) ELSE Raised("ValueError", verdict.err)

\* lines 283-305: the local heuristic; ext is structured_contract["extracted"]
Heuristic(sc) ==
    IF sc = NoStructured \/ sc.extracted.kind = "non_dict"
    THEN Raised("AttributeError", "object has no attribute 'get'")
    ELSE LET present_score(k) == IF k \in sc.extracted.present THEN 600 ELSE 300
             l == present_score("liability_clause")
             t == present_score("termination_clause")
             f == present_score("payment_terms")
         IN  Returned(RiskObject(PyNum((l + t + f) \div 3), PyNum(l), PyNum(t), PyNum(f), Rationale))

RiskErrorResult(cid, e) == [contract_id |-> cid, status |-> "ERROR", error |-> e]

RiskInit ==
    /\ r_event \in RiskEvents
    /\ run_bedrock \in BOOLEAN
    /\ threshold \in {0, HIGH_RISK_THRESHOLD, 1000}
    /\ structured_contract = NONE
    /\ r_contract_id = NONE
    /\ r_response = NONE
    /\ r_raised = NoException
    /\ r_result = NoResult
    /\ rpc = "entry"
    /\ WaitIdle
    /\ GetTextIdle
    /\ JsonIdle
    /\ NormIdle
    /\ ChunkIdle
    /\ ValidateIdle
    /\ MergeIdle
    /\ HandlerIdle
    /\ LateIdle

\* lines 269-275: the structured contract and the contract id
RiskEntry ==
    /\ rpc = "entry"
    /\ LET sc == _extract_structured_contract(r_event)
       IN  /\ structured_contract' = sc
           /\ IF r_event.contract_id \notin {NONE, PyStr(<<>>)}
              THEN /\ r_contract_id' = r_event.contract_id
                   /\ rpc' = "try"
                   /\ UNCHANGED r_raised
              ELSE IF sc = NoStructured
              THEN \* None.get("contract_id"), line 272
                   /\ r_raised' = Exception("AttributeError", "'NoneType' object has no attribute 'get'", "entry")
                   /\ rpc' = "done"
                   /\ UNCHANGED r_contract_id
              ELSE /\ r_contract_id' = sc.contract_id
                   /\ rpc' = "try"
                   /\ UNCHANGED r_raised
    /\ r_event' = ReadEvent
    /\ UNCHANGED <<run_bedrock, threshold, r_response, r_result>>
    /\ UNCHANGED <<waitVars, getTextVars, jsonVars, normVars, chunkVars, validateVars, mergeVars, handlerVars, lateVars>>

\* lines 277-323: the try block and its except clause
RiskAnalyze ==
    /\ rpc = "try"
    /\ \E resp \in RiskResponses :
          LET got == IF run_bedrock
                     THEN IF structured_contract = NoStructured
                          THEN \* _build_prompt reads structured_contract.keys(), line 68
                               Raised("AttributeError", "'NoneType' object has no attribute 'keys'")
                          ELSE RiskInvokeBedrock(resp)
                     ELSE Heuristic(structured_contract)
              verdict == IF got.ok THEN _validate_risk_output(got.value) ELSE Accept
          IN  /\ r_response' = IF run_bedrock /\ structured_contract # NoStructured THEN resp ELSE NONE
              /\ r_result' =
                    IF ~got.ok THEN RiskErrorResult(r_contract_id, got.msg)
                    ELSE IF verdict # Accept THEN RiskErrorResult(r_contract_id, verdict.err)
                    ELSE [ contract_id |-> r_contract_id,
                           risk |-> got.value,
                           risk_flag |-> IF _high_risk_flag(got.value, threshold)
                                         THEN "HIGH_RISK" ELSE "OK",
                           status |-> "RISK_ANALYZED" ]
    /\ rpc' = "done"
    /\ UNCHANGED <<r_event, run_bedrock, threshold, structured_contract, r_contract_id, r_raised>>
    /\ UNCHANGED <<waitVars, getTextVars, jsonVars, normVars, chunkVars, validateVars, mergeVars, handlerVars, lateVars>>

RiskNext ==
    \/ RiskEntry
    \/ RiskAnalyze

SpecRisk == RiskInit /\ [][RiskNext]_vars

(***************************************************************************)
(* Properties of the risk agent                                            *)
(***************************************************************************)
RiskAnalyzed == "status" \in DOMAIN r_result /\ r_result.status = "RISK_ANALYZED"

\* the number a score stands for, in hundredths (True is 1, False is 0)
ScoreValue(v) == IF v.t = "bool" THEN (IF v.b THEN 100 ELSE 0) ELSE v.n

\* score v is a number strictly greater than limit
StrictlyGreater(v, limit) == v.t \in {"num", "bool"} /\ ScoreValue(v) > limit

\* C16: a result with status RISK_ANALYZED has risk_flag HIGH_RISK if and
\* only if at least one of the four scores of its risk record is strictly
\* greater than the threshold, and OK otherwise: a score equal to the
\* threshold does not raise the flag, and any of the four scores can.
C16_RiskFlagDecision ==
    RiskAnalyzed =>
        /\ r_result.risk_flag \in {"HIGH_RISK", "OK"}
        /\ (r_result.risk_flag = "HIGH_RISK") <=>
              (\E k \in ScoreKeySet : StrictlyGreater(r_result.risk.d[k], threshold))

\* threshold 7: overall_risk 7.0 alone would give OK, liability_risk 7.01
\* raises the flag
C16_Witness ==
    /\ RiskAnalyzed
    /\ threshold = HIGH_RISK_THRESHOLD
    /\ r_result.risk.d["overall_risk"] = PyNum(HIGH_RISK_THRESHOLD)
    /\ r_result.risk.d["liability_risk"] = PyNum(HIGH_RISK_THRESHOLD + 1)
    /\ r_result.risk.d["termination_risk"] = PyNum(0)
    /\ r_result.risk.d["financial_risk"] = PyNum(0)
    /\ r_result.risk_flag = "HIGH_RISK"

\* C17: a result with status RISK_ANALYZED carries a risk record with exactly
\* the 5 risk keys, its 4 scores numbers in [0, 10], its rationale a string
\* that is not blank, and a risk_flag that is HIGH_RISK or OK.
C17_RiskRecordInvariant ==
    RiskAnalyzed =>
        /\ r_result.risk.t = "dict"
        /\ DOMAIN r_result.risk.d = RiskKeySet
        /\ \A k \in ScoreKeySet :
              /\ r_result.risk.d[k].t = "num"
              /\ r_result.risk.d[k].n >= 0
              /\ r_result.risk.d[k].n <= 1000
        /\ r_result.risk.d["rationale"].t = "str"
        /\ PyStrip(r_result.risk.d["rationale"].s) # <<>>
        /\ r_result.risk_flag \in {"HIGH_RISK", "OK"}

\* C18: the risk handler never ends by raising: it returns a result with
\* contract_id and status, and a result whose status is not RISK_ANALYZED
\* has status ERROR, an error string and no risk_flag.
C18_RiskNeverRaises ==
    rpc = "done" =>
        /\ r_raised = NoException
        /\ {"contract_id", "status"} \subseteq DOMAIN r_result
        /\ ~RiskAnalyzed =>
              /\ r_result.status = "ERROR"
              /\ "error" \in DOMAIN r_result
              /\ "risk_flag" \notin DOMAIN r_result

(***************************************************************************)
(* _json_loads_safely: src/agents/ingestion/main.py:70-95 (the copy of     *)
(* src/agents/risk_analysis/main.py:26-40 has the same statements)         *)
(***************************************************************************)
\* longest model text tried
MaxJsonLen == 5

\* a search for the last occurrence
PyFindLast(s, c) == RFind(s, <<c>>, 0, Len(s))

\* s.find(c): the lowest index of c in s, or -1
RECURSIVE FindFrom(_, _, _)
FindFrom(s, c, k) ==
    IF k >= Len(s) THEN -1
    ELSE IF s[k + 1] = c THEN k ELSE FindFrom(s, c, k + 1)

PyFind(s, c) == FindFrom(s, c, 0)

\* json.loads(sub) for a string of braces, blanks and "x": the only documents are an
\* opening brace, whitespace and a closing brace, which give the empty dict
JsonLoads(sub) ==
    IF /\ Len(sub) >= 2
       /\ sub[1] = "{"
       /\ sub[Len(sub)] = "}"
       /\ \A n \in 2..(Len(sub) - 1) : sub[n] = " "
    THEN Returns(PyDict([k \in {} |-> NONE]))
    ELSE Raises("JSONDecodeError", PyStr(sub))

JsonInit ==
    \* texts of braces, whitespace and commentary
    /\ j_input \in SeqsUpTo({"{", "}", " ", "x"}, MaxJsonLen)
    /\ j_text = <<>>
    /\ start = -1
    /\ end = -1
    /\ j_parsed = NONE
    /\ j_outcome = Pending
    /\ jpc = "entry"
    /\ OcrAndRiskIdle
    /\ NormIdle
    /\ ChunkIdle
    /\ ValidateIdle
    /\ MergeIdle
    /\ HandlerIdle
    /\ LateIdle

jsonRest == <<waitVars, getTextVars, riskVars, normVars, chunkVars, validateVars, mergeVars, handlerVars, lateVars>>

\* lines 78-83: strip; a text that is braces from end to end is parsed whole
JsonEntry ==
    /\ jpc = "entry"
    /\ LET t == PyStrip(j_input)
       IN  /\ j_text' = t
           /\ IF t # <<>> /\ t[1] = "{" /\ t[Len(t)] = "}"
              THEN /\ j_parsed' = PyStr(t)
                   /\ j_outcome' = JsonLoads(t)
                   /\ jpc' = "done"
              ELSE /\ jpc' = "scan"
                   /\ UNCHANGED <<j_parsed, j_outcome>>
    /\ UNCHANGED <<j_input, start, end>>
    /\ UNCHANGED jsonRest

\* lines 86-95: the block from the first "{" to the last "}"
JsonScan ==
    /\ jpc = "scan"
    /\ LET a == PyFind(j_text, "{")
           b == RFind(j_text, <<"}">>, 0, Len(j_text))
       IN  /\ start' = a
           /\ end' = b
           /\ IF a # -1 /\ b # -1 /\ b > a
              THEN /\ j_parsed' = PyStr(Slice(j_text, a, b + 1))
                   /\ j_outcome' = JsonLoads(Slice(j_text, a, b + 1))
              ELSE /\ j_outcome' = Raises("ValueError", PyStr(<<"N", "o", " ", "J", "S", "O", "N">>))
                   /\ UNCHANGED j_parsed
    /\ jpc' = "done"
    /\ UNCHANGED <<j_input, j_text>>
    /\ UNCHANGED jsonRest

JsonNext ==
    \/ JsonEntry
    \/ JsonScan

SpecJson == JsonInit /\ [][JsonNext]_vars

(***************************************************************************)
(* Properties of _json_loads_safely                                        *)
(***************************************************************************)
\* 0-based positions of character c in s
Positions(s, c) == {k \in 0..(Len(s) - 1) : s[k + 1] = c}

\* C19: with t the trimmed text, f the position of its first "{" and l the
\* position of its last "}": when both exist and l > f, json.loads is handed
\* exactly t[f..l] and the call ends as json.loads does; otherwise (no "{",
\* no "}", or every "}" before the first "{") nothing is parsed and the call
\* raises the no-JSON-found ValueError.
C19_JsonRecovery ==
    jpc = "done" =>
        LET t == PyStrip(j_input)
            opens == Positions(t, "{")
            closes == Positions(t, "}")
            f == CHOOSE a \in opens : \A g \in opens : a <= g
            l == CHOOSE b \in closes : \A m \in closes : m <= b
        IN  IF opens # {} /\ closes # {} /\ f < l
            THEN /\ j_parsed = PyStr([n \in 1..(l - f + 1) |-> t[f + n]])
                 /\ j_outcome.kind = "returned" \/ j_outcome.etype = "JSONDecodeError"
            ELSE /\ j_parsed = NONE
                 /\ j_outcome.etype = "ValueError"

\* commentary before and after the braces is discarded
C19_Witness ==
    /\ jpc = "done"
    /\ Len(j_text) = 5
    /\ j_text[1] = "x"
    /\ j_text[Len(j_text)] = "x"
    /\ j_parsed = PyStr(<<"{", " ", "}">>)
    /\ j_outcome.kind = "returned"

(***************************************************************************)
(* Response normalization of _invoke_bedrock:                              *)
(* src/agents/ingestion/main.py:243-263 (risk_analysis/main.py:139-156 has *)
(* the same statements)                                                    *)
(***************************************************************************)
\* longest content array tried
MaxParts == 2

\* a part of a content array; type = "absent" and text = NONE are parts
\* without that key
Part(type, txt) == [type |-> type, text |-> txt]

Parts ==
    { Part("text", PyStr(<<"a">>)), Part("text", NONE),
      Part("tool_use", PyStr(<<"b">>)), Part("absent", PyStr(<<" ", "c">>)) }

\* a value found where a content array is expected: the key is absent, or it
\* holds a non-empty string, a list of strings, or a list of parts
Content(kind, parts) == [kind |-> kind, parts |-> parts]

\* payload["content"] and payload["output"]["message"]["content"]; for the
\* latter, "no_output" and "no_message" say which enclosing key is absent
Payloads ==
    LET ContentShapes ==
            {Content("absent", <<>>), Content("string", <<>>), Content("str_list", <<>>)}
            \cup {Content("list", ps) : ps \in SeqsUpTo(Parts, MaxParts)}
    IN  [ content : ContentShapes,
          nested : ContentShapes \cup {Content("no_output", <<>>), Content("no_message", <<>>)} ]

\* str(payload)
StrOf(pl) == [t |-> "str_of", payload |-> pl]

\* a selection that returns the parts last to first
RECURSIVE TextPartsReversed(_, _)
TextPartsReversed(ps, by_type) ==
    IF ps = <<>> THEN <<>>
    ELSE TextPartsReversed(Tail(ps), by_type)
         \o (IF by_type
             THEN (IF ps[1].type = "text"
                   THEN <<IF ps[1].text = NONE THEN <<>> ELSE ps[1].text.s>> ELSE <<>>)
             ELSE (IF ps[1].text # NONE THEN <<ps[1].text.s>> ELSE <<>>))

\* the list comprehensions of lines 247 (by_type) and 254, 260 (by key)
RECURSIVE TextParts(_, _)
TextParts(ps, by_type) ==
    IF ps = <<>> THEN <<>>
    ELSE (IF by_type
          THEN (IF ps[1].type = "text"
                THEN <<IF ps[1].text = NONE THEN <<>> ELSE ps[1].text.s>> ELSE <<>>)
          ELSE (IF ps[1].text # NONE THEN <<ps[1].text.s>> ELSE <<>>))
         \o TextParts(Tail(ps), by_type)

\* "\n".join(text_parts).strip()
JoinParts(texts) == PyStr(PyStrip(PyJoin(<<"\n">>, texts)))

NormInit ==
    /\ MODEL_ID \in {"anthropic", "nova", "other"}
    /\ payload \in Payloads
    /\ model_text = NONE
    /\ npc = "entry"
    /\ OcrAndRiskIdle
    /\ JsonIdle
    /\ ChunkIdle
    /\ ValidateIdle
    /\ MergeIdle
    /\ HandlerIdle
    /\ LateIdle

normRest == <<waitVars, getTextVars, riskVars, jsonVars, chunkVars, validateVars, mergeVars, handlerVars, lateVars>>

\* lines 244-248: MODEL_ID starts with "anthropic."
ExtractAnthropic ==
    /\ npc = "entry"
    /\ MODEL_ID = "anthropic"
    /\ LET content == payload.content
       IN  IF content.kind \in {"string", "str_list"}
           THEN \* p.get on a str: AttributeError
                /\ npc' = "raised"
                /\ UNCHANGED model_text
           ELSE /\ model_text' = JoinParts(TextParts(content.parts, TRUE))
                /\ npc' = "done"
    /\ UNCHANGED <<MODEL_ID, payload>>
    /\ UNCHANGED normRest

\* lines 249-255: a Nova model id
ExtractNova ==
    /\ npc = "entry"
    /\ MODEL_ID = "nova"
    /\ LET content == payload.nested
       IN  \* `"text" in p` is False for the characters of a string and for
           \* the strings of a list
           model_text' = JoinParts(TextParts(content.parts, FALSE))
    /\ npc' = "done"
    /\ UNCHANGED <<MODEL_ID, payload>>
    /\ UNCHANGED normRest

\* lines 256-263: any other model id
ExtractGeneric ==
    /\ npc = "entry"
    /\ MODEL_ID = "other"
    /\ LET content == payload.content
       IN  model_text' = IF content.kind = "list" /\ content.parts # <<>>
                         THEN JoinParts(TextParts(content.parts, FALSE))
                         ELSE StrOf(payload)
    /\ npc' = "done"
    /\ UNCHANGED <<MODEL_ID, payload>>
    /\ UNCHANGED normRest

NormNext ==
    \/ ExtractAnthropic
    \/ ExtractNova
    \/ ExtractGeneric

SpecNorm == NormInit /\ [][NormNext]_vars

(***************************************************************************)
(* Properties of the response normalization                                *)
(***************************************************************************)
IsTypedText(p) == p.type = "text"
HasText(p) == p.text # NONE

\* the texts of the parts of ps that satisfy Keep, in array order, joined by
\* newlines and stripped
Joined(ps, Keep(_)) ==
    LET kept == SelectSeq(ps, Keep)
    IN  PyStr(PyStrip(PyJoin(<<"\n">>,
            [n \in 1..Len(kept) |-> IF kept[n].text = NONE THEN <<>> ELSE kept[n].text.s])))

TopLevelShape == payload.content.kind = "list"
NestedShape == payload.nested.kind = "list"

MaxRawLen == 3

\* what json.loads can put under a field: null, strings, numbers, booleans,
\* mappings and sequences
RawValues ==
    LET Items == {NONE, PyStr(<<" ", "a">>), PyStr(<<" ">>), PyNum(1), PyBool(FALSE),
                  PyDict([k \in {"a"} |-> NONE])}
    IN  {NONE, PyNum(0), PyNum(-7), PyNum(12), PyBool(TRUE), PyBool(FALSE)}
        \cup {PyStr(s0) : s0 \in SeqsUpTo({" ", "a", "\n"}, MaxRawLen)}
        \cup {PyDict([k \in {"a"} |-> v]) : v \in {NONE, PyStr(<<" ">>), PyNum(1)}}
        \cup {PyList(items) : items \in SeqsUpTo(Items, 2)}

CoerceInit ==
    /\ c_value \in RawValues
    /\ c_once = NONE
    /\ c_twice = NONE
    /\ cpc = "first"
    /\ OcrAndRiskIdle
    /\ OcrIdle
    /\ CallbackIdle
    /\ JsonIdle
    /\ NormIdle
    /\ ChunkIdle
    /\ ValidateIdle
    /\ MergeIdle
    /\ HandlerIdle

coerceRest ==
    << waitVars, getTextVars, riskVars, jsonVars, normVars, chunkVars, validateVars,
       mergeVars, handlerVars, ocrVars, approvalVars >>

\* lines 309-337, on the raw value
CoerceFirst ==
    /\ cpc = "first"
    /\ c_once' = _coerce_value_to_string_or_none(c_value)
    /\ cpc' = "second"
    /\ UNCHANGED <<c_value, c_twice>>
    /\ UNCHANGED coerceRest

\* lines 309-337, on what the first call returned
CoerceSecond ==
    /\ cpc = "second"
    /\ c_twice' = _coerce_value_to_string_or_none(c_once)
    /\ cpc' = "done"
    /\ UNCHANGED <<c_value, c_once>>
    /\ UNCHANGED coerceRest

CoerceNext ==
    \/ CoerceFirst
    \/ CoerceSecond

SpecCoerce == CoerceInit /\ [][CoerceNext]_vars

(***************************************************************************)
(* Properties of _coerce_value_to_string_or_none                           *)
(***************************************************************************)
\* null, or a non-empty string that neither starts nor ends with whitespace
IsCanonical(v) ==
    \/ v = NONE
    \/ /\ v.t = "str"
       /\ v.s # <<>>
       /\ v.s[1] \notin Whitespace
       /\ v.s[Len(v.s)] \notin Whitespace

\* C21: the coerced value is null or a non-empty string without surrounding
\* whitespace; a raw value that already is one is returned unchanged; and
\* coercing the coerced value returns it unchanged.
C21_CoercionIdempotence ==
    /\ cpc \in {"second", "done"} =>
          /\ IsCanonical(c_once)
          /\ IsCanonical(c_value) => c_once = c_value
    /\ cpc = "done" => c_twice = c_once

\* a sequence with a padded string and a number has been coerced twice
C21_Witness ==
    /\ cpc = "done"
    /\ c_value = PyList(<<PyStr(<<" ", "a">>), PyNum(1)>>)
    /\ c_once = PyStr(<<"a", "\n", "1">>)
    /\ c_twice = c_once

(***************************************************************************)
(* Properties of the extraction loop of handler                            *)
(***************************************************************************)
\* C22: the model is invoked for the chunks 0, 1, 2, ... in that order, once
\* each, a failed chunk included; the outcome of every call is recorded
\* before the next one is made; and a handler that got past the loop has
\* invoked the model exactly once for every chunk.
C22_NoRetriesStrictOrder ==
    /\ idx <= Len(h_chunks)
    /\ invocations = [n \in 1..idx |-> n - 1]
    /\ Len(extractions) + Len(errors) = Len(invocations)
    /\ (hpc = "done" /\ h_chunks # <<>>) => Len(invocations) = Len(h_chunks)

\* handler finished a run of at least two chunks whose first chunk failed
C22_Witness ==
    /\ hpc = "done"
    /\ Len(h_chunks) >= 2
    /\ errors # <<>>
    /\ errors[1].chunk = 0
    /\ invocations[2] = 1
    /\ extractions # <<>>

(***************************************************************************)
(* Termination of the carving loop of _chunk_text                          *)
(***************************************************************************)
\* one iteration of the loop moves i forward, to the cut it chose, and never
\* past the end of the text
C23_Progress ==
    [][Len(chunks') > Len(chunks) =>
          /\ i < i'
          /\ i' <= Len(text)
          /\ i' = cuts'[Len(cuts')]]_vars

\* C23: for every text and every positive max_chars the cut of each
\* iteration lies strictly after the start index i, so i strictly increases,
\* and the call returns.
C23_SegmenterTermination == C23_Progress /\ <>(ckpc = "returned")

\* a call returned after at least three iterations, one of which cut at a
\* space and one of which cut inside a word
C23_Witness ==
    /\ ckpc = "returned"
    /\ Len(cuts) >= 3
    /\ \E k \in 1..Len(cuts) : cuts[k] < Len(text) /\ text[cuts[k] + 1] = " "
    /\ \E k \in 1..Len(cuts) : cuts[k] < Len(text) /\ text[cuts[k] + 1] # " "
                               /\ text[cuts[k]] # " "

(***************************************************************************)
(* The OCR phase of handler, lines 467-478, with _wait_for_textract and    *)
(* _get_textract_text running step by step inside it                       *)
(***************************************************************************)
OcrInit ==
    /\ opc = "start_job"
    /\ o_jobs = 0
    /\ WaitIdle
    /\ GetTextIdle
    /\ RiskIdle
    /\ JsonIdle
    /\ NormIdle
    /\ ChunkIdle
    /\ ValidateIdle
    /\ MergeIdle
    /\ HandlerIdle
    /\ CoerceIdle
    /\ CallbackIdle

ocrRest ==
    << riskVars, jsonVars, normVars, chunkVars, validateVars, mergeVars, handlerVars,
       coerceVars, approvalVars >>

\* lines 469-470 and 350-363: the job is submitted and, unless the submission
\* raised, _wait_for_textract(job_id) is called without a timeout
OcrStartJob ==
    /\ opc = "start_job"
    /\ o_jobs' = o_jobs + 1
    /\ \E ok \in BOOLEAN :
          IF ok
          THEN /\ opc' = "wait"
               /\ w_copy' = "ingestion"
               /\ wpc' = "entry"
          ELSE /\ opc' = "error"
               /\ UNCHANGED <<w_copy, wpc>>
    /\ UNCHANGED <<timeout_seconds, clock, last_resp, w_elapsed, w_statuses, w_outcome>>
    /\ UNCHANGED getTextVars
    /\ UNCHANGED ocrRest

\* a handler that fetches the result pages however the wait ended
OcrWaitedFetchingAnyway ==
    /\ opc = "wait"
    /\ wpc = "done"
    /\ opc' = "get_text"
    /\ gpc' = "loop"
    /\ clock' = 0
    /\ last_resp' = NONE
    /\ w_elapsed' = 0
    /\ UNCHANGED <<w_copy, timeout_seconds, w_statuses, w_outcome, wpc, o_jobs>>
    /\ UNCHANGED <<g_blocks, next_token, g_requests, g_served, g_outcome>>
    /\ UNCHANGED ocrRest

\* lines 470-471 and 476-478: _wait_for_textract has ended and its locals are
\* gone; after a return _get_textract_text(job_id) is called, an exception is
\* caught and ends the handler with an error result
OcrWaited ==
    /\ opc = "wait"
    /\ wpc = "done"
    /\ IF w_outcome.kind = "returned"
       THEN /\ opc' = "get_text"
            /\ gpc' = "loop"
       ELSE /\ opc' = "error"
            /\ UNCHANGED gpc
    /\ clock' = 0
    /\ last_resp' = NONE
    /\ w_elapsed' = 0
    /\ UNCHANGED <<w_copy, timeout_seconds, w_statuses, w_outcome, wpc, o_jobs>>
    /\ UNCHANGED <<g_blocks, next_token, g_requests, g_served, g_outcome>>
    /\ UNCHANGED ocrRest

\* lines 471-475: the text came back; an empty one ends the handler
OcrGotText ==
    /\ opc = "get_text"
    /\ gpc = "done"
    /\ opc' = IF g_outcome.value.s = <<>> THEN "error" ELSE "chunking"
    /\ UNCHANGED o_jobs
    /\ UNCHANGED <<waitVars, getTextVars>>
    /\ UNCHANGED ocrRest

OcrNext ==
    \/ OcrStartJob
    \/ WaitEntry
    \/ WaitPoll
    \/ OcrWaited
    \/ GetTextRequest
    \/ GetTextReturn
    \/ OcrGotText

SpecOcr == OcrInit /\ [][OcrNext]_vars

(***************************************************************************)
(* Properties of the OCR phase                                             *)
(***************************************************************************)
\* what has happened so far is a submission, then polls, then fetches
C24_Order ==
    /\ o_jobs <= 1
    /\ w_statuses # <<>> => o_jobs = 1
    /\ g_requests # <<>> => (w_statuses # <<>> /\ LastStatus \in SuccessStatuses)
    /\ \A n \in 1..(Len(w_statuses) - 1) : w_statuses[n] \notin TerminalStatuses

\* no submission after a poll, and neither a submission nor a poll after a fetch
C24_Steps ==
    [][/\ w_statuses # <<>> => o_jobs' = o_jobs
       /\ g_requests # <<>> => (o_jobs' = o_jobs /\ w_statuses' = w_statuses)
       /\ (w_statuses # <<>> /\ LastStatus \in TerminalStatuses) => w_statuses' = w_statuses]_vars

\* C24: in one invocation the job is submitted, then its status is polled
\* one or more times, then result pages are fetched; pages are fetched only
\* after a poll observed SUCCEEDED or PARTIAL_SUCCESS, and once a poll has
\* observed SUCCEEDED, PARTIAL_SUCCESS or FAILED no further poll is made.
C24_OcrPhaseOrdering == [](C24_Order) /\ C24_Steps

\* the phase ended with a text after three polls, the last of which observed
\* PARTIAL_SUCCESS, and two page fetches
C24_Witness ==
    /\ opc = "chunking"
    /\ o_jobs = 1
    /\ Len(w_statuses) = 3
    /\ LastStatus = "PARTIAL_SUCCESS"
    /\ Len(g_requests) = 2

(***************************************************************************)
(* The order of the checks of _validate_schema_minimal                     *)
(***************************************************************************)
\* the errors of the checks (a), (b), (c), (d), in the order of the text
CheckErrors ==
    << "Extraction output is not an object", "Unexpected fields in output",
       "Missing required fields", "must be string or null" >>

\* the checks the validated value violates, by their position in CheckErrors
ViolatedChecks ==
    IF v_obj.t # "dict" THEN {1}
    ELSE (IF DOMAIN v_obj.d \ FieldSet # {} THEN {2} ELSE {})
         \cup (IF FieldSet \ DOMAIN v_obj.d # {} THEN {3} ELSE {})
         \cup (IF \E k \in DOMAIN v_obj.d \cap FieldSet : v_obj.d[k].t \notin {"str", "null"}
               THEN {4} ELSE {})

\* C25: the validator reports the first violated check in the order
\* (a) not a mapping, (b) unexpected key, (c) missing field, (d) value neither
\* string nor null: with a foreign key and a missing field the error is the
\* unexpected-key error, with a missing field and a wrongly typed value it is
\* the missing-field error, each naming exactly the offending keys.
C25_ValidatorCheckOrder ==
    vpc = "done" =>
        /\ (v_verdict = Accept) <=> (ViolatedChecks = {})
        /\ ViolatedChecks # {} =>
               v_verdict.err = CheckErrors[CHOOSE n \in ViolatedChecks :
                                               \A q \in ViolatedChecks : n <= q]
        /\ v_verdict.err = CheckErrors[2] => v_verdict.keys = DOMAIN v_obj.d \ FieldSet
        /\ v_verdict.err = CheckErrors[3] => v_verdict.keys = FieldSet \ DOMAIN v_obj.d

\* a mapping with a foreign key, a missing field and a wrongly typed value
\* was rejected for the foreign key
C25_Witness ==
    /\ vpc = "done"
    /\ ViolatedChecks = {2, 3, 4}
    /\ v_verdict = Reject("Unexpected fields in output", {"extra_field"})

(***************************************************************************)
(* The cut chosen by each iteration of the carving loop of _chunk_text     *)
(***************************************************************************)
\* the window of the k-th iteration: it starts where the previous one cut
WindowStart(k) == IF k = 1 THEN 0 ELSE cuts[k - 1]
WindowEdge(k) == Min(WindowStart(k) + max_chars, Len(text))

\* the 0-based positions p of the window [a, b) at which sub stands, whole
Occurrences(sub, a, b) ==
    {p \in a..(b - Len(sub)) : SubSeq(text, p + 1, p + Len(sub)) = sub}

Greatest(S) == CHOOSE p \in S : \A q \in S : q <= p

\* C26: in each window of a text longer than max_chars the cut is the last
\* ". " of the window if that lies past 60% of max_chars from the window's
\* start; otherwise the last space of the window if that lies strictly after
\* the start; otherwise the window's edge min(i + max_chars, length).
C26_SegmenterCutChoice ==
    (ckpc \in {"loop", "returned"} /\ Len(text) > max_chars) =>
        \A k \in 1..Len(cuts) :
            LET sentences == Occurrences(<<".", " ">>, WindowStart(k), WindowEdge(k))
                spaces == Occurrences(<<" ">>, WindowStart(k), WindowEdge(k))
            IN  cuts[k] =
                  IF sentences # {}
                     /\ 10 * (Greatest(sentences) - WindowStart(k)) > 6 * max_chars
                  THEN Greatest(sentences)
                  ELSE IF spaces # {} /\ Greatest(spaces) > WindowStart(k)
                  THEN Greatest(spaces)
                  ELSE WindowEdge(k)

\* "aaaa. a" carved with max_chars = 6: a sentence cut at 4, a space cut at
\* 5, and a hard cut at the end of the text
C26_Witness ==
    /\ ckpc = "returned"
    /\ max_chars = 6
    /\ text = <<"a", "a", "a", "a", ".", " ", "a">>
    /\ cuts = <<4, 5, 7>>

(***************************************************************************)
(* The schema of what _merge_extractions returns                           *)
(***************************************************************************)
\* C27: the merge of a non-empty list of records that each pass
\* _validate_schema_minimal passes it too; so a handler that merged has
\* passed the validation of lines 499-503 and returned INGESTED with a merged
\* record that passes, never the error of that branch.
C27_MergePreservesSchema ==
    /\ ( /\ mpc = "returned"
         /\ m_extractions # <<>>
         /\ \A n \in 1..Len(m_extractions) :
                _validate_schema_minimal(m_extractions[n]) = Accept )
       => _validate_schema_minimal(m_merged) = Accept
    /\ (hpc = "done" /\ merge_calls > 0) =>
           /\ \A n \in 1..Len(extractions) : _validate_schema_minimal(extractions[n]) = Accept
           /\ HasStatus("INGESTED")
           /\ _validate_schema_minimal(result.extracted) = Accept

\* three records were merged, two of which fill the same field differently
C27_Witness ==
    /\ mpc = "returned"
    /\ Len(m_extractions) = 3
    /\ m_extractions[1].d["payment_terms"] = PyStr(<<"C", "A">>)
    /\ m_extractions[3].d["payment_terms"] = PyStr(<<"N", "Y">>)
    /\ m_extractions[2].d["renewal_terms"] = PyStr(<<"N", "Y">>)
    /\ _validate_schema_minimal(m_merged) = Accept

(***************************************************************************)
(* handler of src/agents/approval/callback_handler.py, one approval_id,    *)
(* invocations running in the slots the platform has                       *)
(***************************************************************************)
MaxCallbacks == 3

\* the item approval/main.py:73-86 puts: status PENDING, with the task token
Item(status, has_token) == [t |-> "item", status |-> status, task_token |-> has_token]

\* queryStringParameters: null, or a mapping with or without an approval_id
\* and with a decision ("" when the key is absent)
CallbackEvents ==
    {NONE} \cup [ t : {"params"}, approval_id : BOOLEAN,
                  decision : {"APPROVED", "REJECTED", "approved", "LATER", ""} ]

\* str.upper(), line 45
Upper(d) == IF d = "approved" THEN "APPROVED" ELSE d

CallbackInit ==
    /\ concurrency \in {1, 2}
    /\ a_store \in {NONE, Item("PENDING", TRUE)}
    /\ a_sent = <<>>
    /\ a_started = 0
    /\ cb_pc = [p \in Slots |-> "idle"]
    /\ cb_event = [p \in Slots |-> NONE]
    /\ cb_item = [p \in Slots |-> NONE]
    /\ cb_sent = [p \in Slots |-> FALSE]
    /\ cb_wrote = [p \in Slots |-> FALSE]
    /\ cb_response = [p \in Slots |-> 0]
    /\ OcrAndRiskIdle
    /\ JsonIdle
    /\ NormIdle
    /\ ChunkIdle
    /\ ValidateIdle
    /\ MergeIdle
    /\ HandlerIdle
    /\ CoerceIdle
    /\ OcrIdle

callbackRest ==
    << waitVars, getTextVars, riskVars, jsonVars, normVars, chunkVars, validateVars,
       mergeVars, handlerVars, coerceVars, ocrVars >>

\* the invocation in slot p is over, or none has run there
Free(p) == cb_pc[p] \in {"idle", "done", "raised"}

\* the invocation in slot p returns statusCode code
Respond(p, code) ==
    /\ cb_response' = [cb_response EXCEPT ![p] = code]
    /\ cb_pc' = [cb_pc EXCEPT ![p] = "done"]

\* lines 43-59: a callback arrives and its parameters are read and checked
CbStart(p) ==
    /\ Free(p)
    /\ a_started < MaxCallbacks
    /\ concurrency = 1 => \A q \in Slots : Free(q)
    /\ a_started' = a_started + 1
    /\ \E ev \in CallbackEvents :
          /\ cb_event' = [cb_event EXCEPT ![p] = ev]
          /\ CASE ev = NONE ->
                    \* None.get, line 44: AttributeError leaves handler
                    /\ cb_pc' = [cb_pc EXCEPT ![p] = "raised"]
                    /\ cb_response' = [cb_response EXCEPT ![p] = 0]
               [] ev # NONE /\ ~ev.approval_id -> Respond(p, 400)
               [] ev # NONE /\ ev.approval_id
                  /\ Upper(ev.decision) \notin {"APPROVED", "REJECTED"} -> Respond(p, 400)
               [] OTHER ->
                    /\ cb_pc' = [cb_pc EXCEPT ![p] = "get_item"]
                    /\ cb_response' = [cb_response EXCEPT ![p] = 0]
    /\ cb_item' = [cb_item EXCEPT ![p] = NONE]
    /\ cb_sent' = [cb_sent EXCEPT ![p] = FALSE]
    /\ cb_wrote' = [cb_wrote EXCEPT ![p] = FALSE]
    /\ UNCHANGED <<concurrency, a_store, a_sent>>
    /\ UNCHANGED callbackRest

\* a handler without the test of lines 81-89: it goes on whatever the status
CbGetItemUnchecked(p) ==
    /\ cb_pc[p] = "get_item"
    /\ \E fails \in BOOLEAN :
          CASE fails -> Respond(p, 500) /\ UNCHANGED cb_item
            [] ~fails /\ a_store = NONE -> Respond(p, 404) /\ UNCHANGED cb_item
            [] ~fails /\ a_store # NONE /\ ~a_store.task_token ->
                 Respond(p, 500) /\ UNCHANGED cb_item
            [] OTHER ->
                 /\ cb_item' = [cb_item EXCEPT ![p] = a_store]
                 /\ cb_pc' = [cb_pc EXCEPT ![p] = "send"]
                 /\ UNCHANGED cb_response
    /\ UNCHANGED <<concurrency, a_store, a_sent, a_started, cb_event, cb_sent, cb_wrote>>
    /\ UNCHANGED callbackRest

\* lines 61-99: get_item and the checks of what it returned
CbGetItem(p) ==
    /\ cb_pc[p] = "get_item"
    /\ \E fails \in BOOLEAN :
          CASE fails -> Respond(p, 500) /\ UNCHANGED cb_item
            [] ~fails /\ a_store = NONE -> Respond(p, 404) /\ UNCHANGED cb_item
            [] ~fails /\ a_store # NONE /\ a_store.status # "PENDING" ->
                 Respond(p, 409) /\ UNCHANGED cb_item
            [] ~fails /\ a_store # NONE /\ a_store.status = "PENDING"
               /\ ~a_store.task_token ->
                 Respond(p, 500) /\ UNCHANGED cb_item
            [] OTHER ->
                 /\ cb_item' = [cb_item EXCEPT ![p] = a_store]
                 /\ cb_pc' = [cb_pc EXCEPT ![p] = "send"]
                 /\ UNCHANGED cb_response
    /\ UNCHANGED <<concurrency, a_store, a_sent, a_started, cb_event, cb_sent, cb_wrote>>
    /\ UNCHANGED callbackRest

\* lines 115-127 and 168-176: send_task_success returns or raises ClientError
CbSend(p) ==
    /\ cb_pc[p] = "send"
    /\ \E fails \in BOOLEAN :
          IF fails
          THEN /\ Respond(p, 500)
               /\ UNCHANGED <<a_sent, cb_sent>>
          ELSE /\ a_sent' = Append(a_sent, [slot |-> p, decision |-> Upper(cb_event[p].decision)])
               /\ cb_sent' = [cb_sent EXCEPT ![p] = TRUE]
               /\ cb_pc' = [cb_pc EXCEPT ![p] = "update"]
               /\ UNCHANGED cb_response
    /\ UNCHANGED <<concurrency, a_store, a_started, cb_event, cb_item, cb_wrote>>
    /\ UNCHANGED callbackRest

\* lines 130-166 and 168-176: update_item returns, and 200 is returned, or it
\* raises ClientError
CbUpdate(p) ==
    /\ cb_pc[p] = "update"
    /\ \E fails \in BOOLEAN :
          IF fails
          THEN /\ Respond(p, 500)
               /\ UNCHANGED <<a_store, cb_wrote>>
          ELSE /\ a_store' = [a_store EXCEPT !.status = Upper(cb_event[p].decision)]
               /\ cb_wrote' = [cb_wrote EXCEPT ![p] = TRUE]
               /\ Respond(p, 200)
    /\ UNCHANGED <<concurrency, a_sent, a_started, cb_event, cb_item, cb_sent>>
    /\ UNCHANGED callbackRest

CallbackNext ==
    \E p \in Slots :
        \/ CbStart(p)
        \/ CbGetItem(p)
        \/ CbSend(p)
        \/ CbUpdate(p)

\* the platform runs the callbacks that arrive together side by side
CallbackInitOverlap ==
    /\ CallbackInit
    /\ concurrency = 2

\* the platform runs one callback at a time
CallbackInitSeq ==
    /\ CallbackInit
    /\ concurrency = 1

\* callbacks that may overlap
SpecCallback == CallbackInitOverlap /\ [][CallbackNext]_vars

\* callbacks one after the other
SpecCallbackSeq == CallbackInitSeq /\ [][CallbackNext]_vars

(***************************************************************************)
(* Properties of the approval callback                                     *)
(***************************************************************************)
Decisions == {"APPROVED", "REJECTED"}

\* the decision the invocation in slot p asks for
Requested(p) == Upper(cb_event[p].decision)

\* an invocation that sent or wrote had read a PENDING item and asks for a
\* decision; one that answered 409 did neither, and the item is processed
C28_Gate ==
    \A p \in Slots :
        /\ (cb_sent[p] \/ cb_wrote[p]) =>
               /\ cb_item[p] # NONE
               /\ cb_item[p].status = "PENDING"
               /\ Requested(p) \in Decisions
        /\ cb_response[p] = 409 =>
               /\ ~cb_sent[p]
               /\ ~cb_wrote[p]
               /\ a_store.status \in Decisions

\* a decision is sent and the item is written only while the stored item is
\* PENDING; the status moves from PENDING to a decision and to nothing else;
\* and the read of a processed item is answered 409 (500 if the read failed)
C28_Moves ==
    [][/\ a_sent' # a_sent => (a_store # NONE /\ a_store.status = "PENDING")
       /\ a_store' # a_store =>
              /\ a_store # NONE
              /\ a_store.status = "PENDING"
              /\ a_store'.status \in Decisions
              /\ a_sent # <<>>
       /\ \A p \in Slots :
              ( /\ cb_pc[p] = "get_item"
                /\ cb_pc'[p] # "get_item"
                /\ a_store # NONE
                /\ a_store.status \in Decisions )
              => (cb_response'[p] \in {409, 500} /\ a_sent' = a_sent)]_vars

C29_AtMostOneDecision ==
    /\ Len(a_sent) <= 1
    /\ (a_store # NONE /\ a_store.status \in Decisions) =>
           (a_sent # <<>> /\ a_store.status = a_sent[1].decision)

\* C30: an invocation that returned 400, 404, 409 or 500 has sent no decision
\* and has not written the item; one that returned 200 has sent its decision
\* and the stored status is that decision.
C30_FailureAtomicity ==
    \A p \in Slots :
        /\ cb_response[p] \in {400, 404, 409, 500} => (~cb_sent[p] /\ ~cb_wrote[p])
        /\ cb_response[p] = 200 =>
               /\ cb_sent[p]
               /\ cb_wrote[p]
               /\ a_store.status = Requested(p)
====
